---- MODULE Spec2Model ----
(***************************************************************************)
(* Model of the product-catalog backend: the catalog store and the        *)
(* identity store behind ProductController / AuthController, the           *)
(* authorization rules of SecurityConfig and the @PreAuthorize guards,     *)
(* and the business rules of Product / ProductService / AuthService.       *)
(*                                                                         *)
(* Prices are integers in thousandths of a currency unit, so that the      *)
(* @Digits(fraction = 2) rule is something a price can break.  Product     *)
(* description, category and the audit timestamps are not modelled.        *)
(***************************************************************************)
EXTENDS Integers, Sequences, FiniteSets, TLC

(***************************************************************************)
(* Bounds of the model.                                                    *)
(***************************************************************************)
MaxRequests == 3      \* requests served in one behaviour
MaxCreated == 1       \* products created on top of the seeded ones
MaxRegistered == 1    \* identities registered on top of the seeded ones
MaxDelta == 2         \* largest small stock delta a request carries
MaxOverlapped == 2    \* requests served in one behaviour with overlapping handlers
MaxCatalog == 25      \* products of the largest catalog a page is taken from
MaxPage == 3          \* largest page index a request asks for
MaxSearched == 2      \* requests served in one behaviour that ends with a query
MaxLateSeconds == 1   \* whole seconds the clock is read past an instant of interest

(***************************************************************************)
(* Program constants.                                                      *)
(***************************************************************************)
MaxInt == 2147483647
MinInt == -MaxInt - 1
MinStockQuantity == 0
MaxStockQuantity == 999999
MinPrice == 10
MaxPrice == 999999990
MinNameLen == 2
MaxNameLen == 255

(***************************************************************************)
(* 32-bit arithmetic of java.lang.Integer.                                 *)
(***************************************************************************)
\* a + b on int, wrapping around as Java does; no intermediate value leaves
\* the 32-bit range.
Add32(a, b) ==
    IF a > 0 /\ b > 0 /\ a > MaxInt - b
      THEN (a - MaxInt - 1) + (b - MaxInt - 1)
    ELSE IF a < 0 /\ b < 0 /\ a < MinInt - b
      THEN (a + MaxInt + 1) + (b + MaxInt + 1)
    ELSE a + b

\* Math.abs(int): Math.abs(Integer.MIN_VALUE) is Integer.MIN_VALUE.
Abs32(q) == IF q = MinInt THEN MinInt ELSE IF q < 0 THEN -q ELSE q

(***************************************************************************)
(* Product entity.                                                         *)
(***************************************************************************)
\* The ten products createSampleProducts saves at startup, in order.
SampleProducts ==
    << [name |-> "MacBook Pro 16", category |-> "Electronics", price |-> 2499990, stockQuantity |-> 15],
       [name |-> "iPhone 15 Pro", category |-> "Electronics", price |-> 999990, stockQuantity |-> 25],
       [name |-> "Sony WH-1000XM5", category |-> "Electronics", price |-> 349990, stockQuantity |-> 30],
       [name |-> "Nike Air Max 270", category |-> "Sports", price |-> 129990, stockQuantity |-> 50],
       [name |-> "Adidas Ultraboost 22", category |-> "Sports", price |-> 179990, stockQuantity |-> 35],
       [name |-> "Samsung 65 QLED TV", category |-> "Electronics", price |-> 1299990, stockQuantity |-> 10],
       [name |-> "Dell XPS 13", category |-> "Electronics", price |-> 1199990, stockQuantity |-> 20],
       [name |-> "Canon EOS R6", category |-> "Electronics", price |-> 2499990, stockQuantity |-> 8],
       [name |-> "Yoga Mat Premium", category |-> "Sports", price |-> 49990, stockQuantity |-> 100],
       [name |-> "Wireless Charger", category |-> "Electronics", price |-> 29990, stockQuantity |-> 75] >>

\* Bean Validation constraints, the same on Product and on ProductRequest.
ValidName(name) == Len(name) >= MinNameLen /\ Len(name) <= MaxNameLen

ValidPrice(price) ==
    price >= MinPrice /\ price <= MaxPrice /\ price % 10 = 0

ValidStockMutant(stock) == stock <= MaxStockQuantity

ValidStockUnboundedMutant(stock) == stock >= MinStockQuantity

ValidStock(stock) == stock >= MinStockQuantity /\ stock <= MaxStockQuantity

\* @Valid on the request body of POST /products and PUT /products/{id}.
ValidProductRequest(req) ==
    ValidName(req.name) /\ ValidPrice(req.price) /\ ValidStock(req.stockQuantity)

\* The entity's constraints, checked by the persistence provider when save
\* inserts or updates the row.
ValidProduct(p) ==
    ValidName(p.name) /\ ValidPrice(p.price) /\ ValidStock(p.stockQuantity)

isInStockMutant(p) == p.stockQuantity >= 0

isInStock(p) == p.stockQuantity > 0

isLowStock(p) == p.stockQuantity < 10

\* ProductResponse(Product): the stored fields and the derived ones.
ProductResponse(p) ==
    [name |-> p.name, category |-> p.category, price |-> p.price,
     stockQuantity |-> p.stockQuantity,
     inStock |-> isInStock(p), lowStock |-> isLowStock(p)]

\* Product.decreaseStock / increaseStock: [threw, stockQuantity].
decreaseStockMutant(p, quantity) ==
    IF quantity <= 0
      THEN [threw |-> TRUE, stockQuantity |-> p.stockQuantity]
    ELSE IF quantity > p.stockQuantity
      THEN [threw |-> FALSE, stockQuantity |-> 0]
    ELSE [threw |-> FALSE, stockQuantity |-> p.stockQuantity - quantity]

decreaseStock(p, quantity) ==
    IF quantity <= 0
      THEN [threw |-> TRUE, stockQuantity |-> p.stockQuantity]
    ELSE IF quantity > p.stockQuantity
      THEN [threw |-> TRUE, stockQuantity |-> p.stockQuantity]
    ELSE [threw |-> FALSE, stockQuantity |-> p.stockQuantity - quantity]

increaseStockMutant(p, quantity) ==
    IF quantity <= 0
      THEN [threw |-> TRUE, stockQuantity |-> p.stockQuantity]
    ELSE [threw |-> FALSE, stockQuantity |-> quantity]

increaseStock(p, quantity) ==
    IF quantity <= 0
      THEN [threw |-> TRUE, stockQuantity |-> p.stockQuantity]
    ELSE [threw |-> FALSE, stockQuantity |-> Add32(p.stockQuantity, quantity)]

(***************************************************************************)
(* State.                                                                  *)
(***************************************************************************)
VARIABLES
    products,        \* catalog store: product id -> row
    nextProductId,   \* next value of the IDENTITY column of products
    users,           \* identity store: user id -> row
    nextUserId,      \* next value of the IDENTITY column of users
    loaded,          \* per request thread: the entity a handler has read and not yet saved
    resp,            \* the request served last and its response
    nreq,            \* requests served so far
    now,             \* the server clock, in milliseconds since start-up
    client,          \* the browser: localStorage, location, requests in flight
    acked,           \* the stock updates of overlapping handlers answered 200, in order
    authProvider,    \* the browser's AuthProvider: reducer state and calls awaiting
    productProvider  \* the browser's ProductProvider: reducer state and calls awaiting

vars ==
    <<products, nextProductId, users, nextUserId, loaded, resp, nreq, now, client,
      acked, authProvider, productProvider>>

Threads == {1, 2}

NoToken == [sub |-> "", role |-> "", userId |-> 0, iat |-> 0, exp |-> 0, key |-> ""]

\* An optional request parameter: absent, or present with a value.
None == <<>>
Some(v) == <<v>>

NoCriteria ==
    [name |-> None, category |-> None, minPrice |-> None, maxPrice |-> None,
     inStock |-> None]

\* The parameters of GET /products and the Page it answers with.
NoPageable == [page |-> 0, size |-> 0, sortBy |-> "", sortDir |-> ""]

NoPage ==
    [content |-> <<>>, totalElements |-> 0, totalPages |-> 0,
     first |-> FALSE, last |-> FALSE]

NoRequest ==
    [op |-> "none", caller |-> 0, role |-> "ANONYMOUS", id |-> 0, arg |-> 0,
     status |-> 0, existed |-> FALSE, old |-> 0,
     email |-> "", password |-> "", newRole |-> "", token |-> NoToken,
     valid |-> FALSE, criteria |-> NoCriteria, items |-> {},
     pageable |-> NoPageable, page |-> NoPage, body |-> None,
     saveThrew |-> FALSE, threw |-> FALSE]

NoEntity == [name |-> "", category |-> "", price |-> 0, stockQuantity |-> 0]

\* The browser before anything was stored or requested: localStorage has no
\* token and no request is in flight.  lastStatus, rejected and loggedOut
\* remember the last response, the token the last 401 took away, and whether
\* a 401 was handled since a token was last stored.
NoClient ==
    [token |-> NoToken, location |-> "/", inflight |-> {},
     lastStatus |-> 0, rejected |-> NoToken, loggedOut |-> FALSE]

\* AuthContext: user: null is NoUser, token: null is NoToken, error: null is
\* None.
NoUser == [id |-> 0, email |-> "", role |-> ""]

\* initialState of the auth reducer; stored is localStorage.getItem('token').
authInitialState(stored) ==
    [user |-> NoUser, token |-> stored, isAuthenticated |-> FALSE,
     isLoading |-> FALSE, error |-> None]

\* The AuthProvider when it is mounted on a browser without a stored token:
\* no action dispatched, no call awaiting, the mount effect still to run.
NoAuthProvider ==
    [state |-> authInitialState(NoToken), dispatched |-> "none",
     awaiting |-> {}, effect |-> TRUE]

\* ProductContext: selectedProduct: null is NoProduct, paginatedProducts:
\* null and error: null are None.
NoProduct == [id |-> 0, name |-> ""]

\* initialState of the product reducer.
productInitialState ==
    [products |-> <<>>, paginatedProducts |-> None, selectedProduct |-> NoProduct,
     categories |-> <<>>, isLoading |-> FALSE, error |-> None]

\* No call of the ProductProvider has settled yet.
NoCall == [op |-> "none", id |-> 0, paged |-> FALSE]

NoSettled == [call |-> NoCall, ok |-> FALSE, listed |-> FALSE, selected |-> FALSE]

\* The ProductProvider when it is mounted.
NoProductProvider ==
    [state |-> productInitialState, awaiting |-> {}, settled |-> NoSettled]

Idle == [op |-> "idle", caller |-> 0, id |-> 0, arg |-> 0, entity |-> NoEntity]

(***************************************************************************)
(* Identities and passwords.                                               *)
(***************************************************************************)
\* PasswordEncoder.encode: the stored hash is not the plaintext.
Encode(password) == <<"bcrypt", password>>

SeedUsers ==
    << [email |-> "admin@example.com", password |-> Encode("password"), role |-> "ADMIN"],
       [email |-> "user@example.com", password |-> Encode("password"), role |-> "USER"] >>

\* The authority a request runs with: the stored role of the identity its
\* bearer token names, ANONYMOUS without a token or when that identity is gone.
Authority(caller) ==
    IF caller \in DOMAIN users THEN users[caller].role ELSE "ANONYMOUS"

(***************************************************************************)
(* Authorization: SecurityConfig.filterChain and @PreAuthorize.            *)
(***************************************************************************)
hasRoleMutant(auth, role) == auth # "ANONYMOUS"

hasRole(auth, role) == auth = role

hasAnyRole(auth, roles) == \E r \in roles : hasRole(auth, r)

\* authorizeHttpRequests: the first matching rule decides.  A path is its
\* sequence of segments below the context path.
AuthorizeHttpRequest(auth, method, path) ==
    IF path[1] \in {"auth", "public", "health", "info"} THEN TRUE
    ELSE IF path[1] \in {"swagger-ui", "v3", "h2-console"} THEN TRUE
    ELSE IF method = "GET" /\ path[1] = "products" THEN hasAnyRole(auth, {"USER", "ADMIN"})
    ELSE IF method = "POST" /\ path[1] = "products" THEN hasRole(auth, "ADMIN")
    ELSE IF method = "PUT" /\ path[1] = "products" THEN hasRole(auth, "ADMIN")
    ELSE IF method = "DELETE" /\ path[1] = "products" THEN hasRole(auth, "ADMIN")
    ELSE IF path[1] = "users" THEN hasRole(auth, "ADMIN")
    ELSE auth # "ANONYMOUS"

\* The status of a request the filter chain refuses.  No entry point and no
\* access-denied handler is configured, so both the anonymous and the
\* authenticated refusal are answered with the framework's 403.
FilterChainDenied(auth) == 403

\* handleAccessDeniedException: a refusal by @PreAuthorize.
handleAccessDeniedException == 403

\* Status with which security answers before the handler body runs, 0 when
\* the request is let through.  preAuthorize is the role the handler's
\* @PreAuthorize("hasRole(..)") names, "" when it has none.
Security(auth, method, path, preAuthorize) ==
    IF ~AuthorizeHttpRequest(auth, method, path) THEN FilterChainDenied(auth)
    ELSE IF preAuthorize # "" /\ ~hasRole(auth, preAuthorize) THEN handleAccessDeniedException
    ELSE 0

(***************************************************************************)
(* Inputs of the requests.                                                 *)
(***************************************************************************)
\* 0 is a request without Authorization header; the others name identities.
Callers == 0 .. (Len(SeedUsers) + MaxRegistered)

\* The callers of the catalog specifications, where nobody registers.
CatalogCallers == 0 .. Len(SeedUsers)

\* Who queries the catalog: a request without token, and the seeded USER.
Readers == {0, Len(SeedUsers)}

\* Product ids the requests address: the last seeded product, the products
\* created later, and one id that is never in the catalog.
TargetIds == Len(SampleProducts) .. (Len(SampleProducts) + MaxCreated + 1)

Quantities == {MinInt, MaxInt, MaxStockQuantity} \cup (-MaxDelta .. MaxDelta)

StockInputs == {-1, 0, MaxDelta, MaxStockQuantity, MaxStockQuantity + 1}

\* A null stockQuantity is turned into 0 by ProductRequest.setStockQuantity,
\* so it is the input 0.
ProductRequests ==
    {[name |-> "Widget", category |-> "", price |-> 9990, stockQuantity |-> s] : s \in StockInputs}
    \cup {[name |-> "W", category |-> "", price |-> 9990, stockQuantity |-> 0],
          [name |-> "Widget", category |-> "", price |-> 0, stockQuantity |-> 0],
          [name |-> "Widget", category |-> "", price |-> 9995, stockQuantity |-> 0]}

(***************************************************************************)
(* ProductService and ProductController.                                   *)
(***************************************************************************)
Respond(r) == resp' = r /\ nreq' = nreq + 1

Request(op, caller, id, arg) ==
    [NoRequest EXCEPT
       !.op = op, !.caller = caller, !.role = Authority(caller), !.id = id, !.arg = arg,
       !.existed = id \in DOMAIN products,
       !.old = IF id \in DOMAIN products THEN products[id].stockQuantity ELSE 0]

\* ProductRepository.save: the row is written unless the entity breaks a
\* constraint, in which case save throws.
saveThrows(p) == ~ValidProduct(p)

updateStockBodyMutant(p, quantity) ==
    LET r == IF quantity >= 0 THEN increaseStock(p, quantity)
             ELSE decreaseStock(p, Abs32(quantity))
        q == [p EXCEPT !.stockQuantity = r.stockQuantity]
    IN  IF r.threw THEN [threw |-> TRUE, product |-> p]
        ELSE IF ~ValidProduct(q) THEN [threw |-> TRUE, product |-> p]
        ELSE [threw |-> FALSE, product |-> q]

\* ProductService.updateStock after findById returned p: what the try block
\* does with quantity.  [threw, product].
updateStockBody(p, quantity) ==
    LET r == IF quantity > 0 THEN increaseStock(p, quantity)
             ELSE IF quantity < 0 THEN decreaseStock(p, Abs32(quantity))
             ELSE [threw |-> FALSE, stockQuantity |-> p.stockQuantity]
        q == [p EXCEPT !.stockQuantity = r.stockQuantity]
    IN  IF r.threw THEN [threw |-> TRUE, product |-> p]
        ELSE IF saveThrows(q) THEN [threw |-> TRUE, product |-> p]
        ELSE [threw |-> FALSE, product |-> q]

\* ProductService.updateProduct after findById returned p.  [threw, product].
updateProductBody(p, req) ==
    LET q == [name |-> req.name, category |-> req.category, price |-> req.price, stockQuantity |-> req.stockQuantity]
    IN  IF saveThrows(q) THEN [threw |-> TRUE, product |-> p]
        ELSE [threw |-> FALSE, product |-> q]

\* Statuses the controller's catch blocks answer with.
createProductFailed == 400
updateProductFailed == 404
deleteProductFailed == 404
updateStockFailed == 400
\* MethodArgumentNotValidException, raised for a request body that fails @Valid.
handleValidationExceptions == 400
handleRuntimeException == 500

\* POST /products
\* storeDown: the store is unreachable and save throws whatever the row is.
CreateProductOnStore(caller, req, storeDown) ==
    LET auth == Authority(caller)
        sec == Security(auth, "POST", <<"products">>, "ADMIN")
        r == Request("createProduct", caller, nextProductId, req.stockQuantity)
        p == [name |-> req.name, category |-> req.category, price |-> req.price, stockQuantity |-> req.stockQuantity]
    IN  /\ nreq < MaxRequests
        /\ IF sec # 0
             THEN /\ Respond([r EXCEPT !.status = sec])
                  /\ UNCHANGED <<products, nextProductId>>
           ELSE IF ~ValidProductRequest(req)
             THEN /\ Respond([r EXCEPT !.status = handleValidationExceptions])
                  /\ UNCHANGED <<products, nextProductId>>
           ELSE IF saveThrows(p) \/ storeDown
             THEN /\ Respond([r EXCEPT !.status = createProductFailed, !.saveThrew = TRUE])
                  /\ UNCHANGED <<products, nextProductId>>
           ELSE /\ nextProductId <= Len(SampleProducts) + MaxCreated
                /\ products' = [i \in DOMAIN products \cup {nextProductId} |->
                                  IF i = nextProductId THEN p ELSE products[i]]
                /\ nextProductId' = nextProductId + 1
                /\ Respond([r EXCEPT !.status = 201, !.body = Some(ProductResponse(p))])
        /\ UNCHANGED <<users, nextUserId, loaded, now, client, acked, authProvider, productProvider>>

CreateProduct(caller, req) == CreateProductOnStore(caller, req, FALSE)

\* PUT /products/{id}
UpdateProductOnStore(caller, id, req, storeDown) ==
    LET auth == Authority(caller)
        sec == Security(auth, "PUT", <<"products", "{id}">>, "ADMIN")
        r == Request("updateProduct", caller, id, req.stockQuantity)
    IN  /\ nreq < MaxRequests
        /\ IF sec # 0
             THEN /\ Respond([r EXCEPT !.status = sec])
                  /\ UNCHANGED products
           ELSE IF ~ValidProductRequest(req)
             THEN /\ Respond([r EXCEPT !.status = handleValidationExceptions])
                  /\ UNCHANGED products
           ELSE IF id \notin DOMAIN products
             THEN /\ Respond([r EXCEPT !.status = updateProductFailed])
                  /\ UNCHANGED products
           ELSE LET u == updateProductBody(products[id], req)
                IN  IF u.threw \/ storeDown
                      THEN /\ Respond([r EXCEPT !.status = updateProductFailed,
                                                !.saveThrew = TRUE])
                           /\ UNCHANGED products
                    ELSE /\ products' = [products EXCEPT ![id] = u.product]
                         /\ Respond([r EXCEPT !.status = 200,
                                              !.body = Some(ProductResponse(u.product))])
        /\ UNCHANGED <<nextProductId, users, nextUserId, loaded, now, client, acked, authProvider, productProvider>>

UpdateProduct(caller, id, req) == UpdateProductOnStore(caller, id, req, FALSE)

\* ProductRepository.existsById
existsByIdMutant(id) == id = id

existsById(id) == id \in DOMAIN products

\* DELETE /products/{id}
DeleteProduct(caller, id) ==
    LET auth == Authority(caller)
        sec == Security(auth, "DELETE", <<"products", "{id}">>, "ADMIN")
        r == Request("deleteProduct", caller, id, 0)
    IN  /\ nreq < MaxRequests
        /\ IF sec # 0
             THEN /\ Respond([r EXCEPT !.status = sec])
                  /\ UNCHANGED products
           ELSE IF ~existsById(id)
             THEN /\ Respond([r EXCEPT !.status = deleteProductFailed])
                  /\ UNCHANGED products
           ELSE /\ products' = [i \in DOMAIN products \ {id} |-> products[i]]
                /\ Respond([r EXCEPT !.status = 204])
        /\ UNCHANGED <<nextProductId, users, nextUserId, loaded, now, client, acked, authProvider, productProvider>>

\* PUT /products/{id}/stock?quantity=
UpdateStock(caller, id, quantity) ==
    LET auth == Authority(caller)
        sec == Security(auth, "PUT", <<"products", "{id}", "stock">>, "ADMIN")
        r == Request("updateStock", caller, id, quantity)
    IN  /\ nreq < MaxRequests
        /\ IF sec # 0
             THEN /\ Respond([r EXCEPT !.status = sec])
                  /\ UNCHANGED products
           ELSE IF id \notin DOMAIN products
             THEN /\ Respond([r EXCEPT !.status = updateStockFailed])
                  /\ UNCHANGED products
           ELSE LET u == updateStockBody(products[id], quantity)
                IN  IF u.threw
                      THEN /\ Respond([r EXCEPT !.status = updateStockFailed])
                           /\ UNCHANGED products
                    ELSE /\ products' = [products EXCEPT ![id] = u.product]
                         /\ Respond([r EXCEPT !.status = 200,
                                              !.body = Some(ProductResponse(u.product))])
        /\ UNCHANGED <<nextProductId, users, nextUserId, loaded, now, client, acked, authProvider, productProvider>>

\* GET /products/{id}
GetProductById(caller, id) ==
    LET auth == Authority(caller)
        sec == Security(auth, "GET", <<"products", "{id}">>, "")
        r == Request("getProductById", caller, id, 0)
    IN  /\ nreq < MaxRequests
        /\ IF sec # 0
             THEN Respond([r EXCEPT !.status = sec])
           ELSE IF id \notin DOMAIN products
             THEN Respond([r EXCEPT !.status = 404])
           ELSE Respond([r EXCEPT !.status = 200,
                                  !.body = Some(ProductResponse(products[id]))])
        /\ UNCHANGED <<products, nextProductId, users, nextUserId, loaded, now, client, acked, authProvider, productProvider>>

(***************************************************************************)
(* Start-up and the sequential catalog specification.                      *)
(***************************************************************************)
\* The stores after BackendApplication.initializeData ran on empty tables.
Init ==
    /\ products = [i \in 1 .. Len(SampleProducts) |-> SampleProducts[i]]
    /\ nextProductId = Len(SampleProducts) + 1
    /\ users = [i \in 1 .. Len(SeedUsers) |-> SeedUsers[i]]
    /\ nextUserId = Len(SeedUsers) + 1
    /\ loaded = [t \in Threads |-> Idle]
    /\ resp = NoRequest
    /\ nreq = 0
    /\ now = 0
    /\ client = NoClient
    /\ acked = <<>>
    /\ authProvider = NoAuthProvider
    /\ productProvider = NoProductProvider

Next ==
    \/ \E c \in CatalogCallers, req \in ProductRequests : CreateProduct(c, req)
    \/ \E c \in CatalogCallers, id \in TargetIds, req \in ProductRequests : UpdateProduct(c, id, req)
    \/ \E c \in CatalogCallers, id \in TargetIds : DeleteProduct(c, id)
    \/ \E c \in CatalogCallers, id \in TargetIds, q \in Quantities : UpdateStock(c, id, q)
    \/ \E c \in CatalogCallers, id \in TargetIds : GetProductById(c, id)

Spec == Init /\ [][Next]_vars

\* The catalog writes when the store may be unreachable.
NextStore ==
    \/ \E c \in CatalogCallers, req \in ProductRequests, down \in BOOLEAN :
          CreateProductOnStore(c, req, down)
    \/ \E c \in CatalogCallers, id \in TargetIds, req \in ProductRequests,
          down \in BOOLEAN : UpdateProductOnStore(c, id, req, down)
    \/ \E c \in CatalogCallers, id \in TargetIds : DeleteProduct(c, id)

SpecStore == Init /\ [][NextStore]_vars

(***************************************************************************)
(* ProductRepository.searchProducts and GET /products/search.              *)
(***************************************************************************)
\* The characters of the names the catalog holds.
Chars(name) ==
    CASE name = "MacBook Pro 16" ->
           <<"M", "a", "c", "B", "o", "o", "k", " ", "P", "r", "o", " ", "1", "6">>
      [] name = "iPhone 15 Pro" ->
           <<"i", "P", "h", "o", "n", "e", " ", "1", "5", " ", "P", "r", "o">>
      [] name = "Sony WH-1000XM5" ->
           <<"S", "o", "n", "y", " ", "W", "H", "-", "1", "0", "0", "0", "X", "M", "5">>
      [] name = "Nike Air Max 270" ->
           <<"N", "i", "k", "e", " ", "A", "i", "r", " ", "M", "a", "x", " ", "2", "7", "0">>
      [] name = "Adidas Ultraboost 22" ->
           <<"A", "d", "i", "d", "a", "s", " ", "U", "l", "t", "r", "a", "b", "o", "o", "s", "t", " ", "2", "2">>
      [] name = "Samsung 65 QLED TV" ->
           <<"S", "a", "m", "s", "u", "n", "g", " ", "6", "5", " ", "Q", "L", "E", "D", " ", "T", "V">>
      [] name = "Dell XPS 13" ->
           <<"D", "e", "l", "l", " ", "X", "P", "S", " ", "1", "3">>
      [] name = "Canon EOS R6" ->
           <<"C", "a", "n", "o", "n", " ", "E", "O", "S", " ", "R", "6">>
      [] name = "Yoga Mat Premium" ->
           <<"Y", "o", "g", "a", " ", "M", "a", "t", " ", "P", "r", "e", "m", "i", "u", "m">>
      [] name = "Wireless Charger" ->
           <<"W", "i", "r", "e", "l", "e", "s", "s", " ", "C", "h", "a", "r", "g", "e", "r">>
      [] name = "Widget" ->
           <<"W", "i", "d", "g", "e", "t">>
      [] OTHER -> <<>>

\* LOWER of one character.
LowerChar(c) ==
    CASE c = "A" -> "a"
      [] c = "B" -> "b"
      [] c = "C" -> "c"
      [] c = "D" -> "d"
      [] c = "E" -> "e"
      [] c = "F" -> "f"
      [] c = "G" -> "g"
      [] c = "H" -> "h"
      [] c = "I" -> "i"
      [] c = "J" -> "j"
      [] c = "K" -> "k"
      [] c = "L" -> "l"
      [] c = "M" -> "m"
      [] c = "N" -> "n"
      [] c = "O" -> "o"
      [] c = "P" -> "p"
      [] c = "Q" -> "q"
      [] c = "R" -> "r"
      [] c = "S" -> "s"
      [] c = "T" -> "t"
      [] c = "U" -> "u"
      [] c = "V" -> "v"
      [] c = "W" -> "w"
      [] c = "X" -> "x"
      [] c = "Y" -> "y"
      [] c = "Z" -> "z"
      [] OTHER -> c

\* LOWER(s)
Lower(s) == [i \in 1 .. Len(s) |-> LowerChar(s[i])]

\* s LIKE pattern, from position i of s and position j of the pattern:
\* % stands for any run of characters and _ for any one character.
RECURSIVE LikeFrom(_, _, _, _)
LikeFrom(s, i, pattern, j) ==
    IF j > Len(pattern) THEN i > Len(s)
    ELSE IF pattern[j] = "%"
      THEN \/ LikeFrom(s, i, pattern, j + 1)
           \/ i <= Len(s) /\ LikeFrom(s, i + 1, pattern, j)
    ELSE /\ i <= Len(s)
         /\ pattern[j] = "_" \/ pattern[j] = s[i]
         /\ LikeFrom(s, i + 1, pattern, j + 1)

Like(s, pattern) == LikeFrom(s, 1, pattern, 1)

\* The WHERE clause of searchProducts for one row.  A null category of a row
\* is "" and equals no parameter.
searchProductsWhere(p, c) ==
    /\ c.name = None
         \/ Like(Lower(Chars(p.name)), Lower(<<"%">> \o c.name[1] \o <<"%">>))
    /\ c.category = None \/ (p.category # "" /\ p.category = c.category[1])
    /\ c.minPrice = None \/ p.price >= c.minPrice[1]
    /\ c.maxPrice = None \/ p.price <= c.maxPrice[1]
    /\ c.inStock = None \/ (c.inStock[1] /\ p.stockQuantity > 0) \/ ~c.inStock[1]

\* ProductRepository.searchProducts: the ids of the rows selected.
searchProducts(c) == {id \in DOMAIN products : searchProductsWhere(products[id], c)}

NameCriteria ==
    {None, Some(<<"p", "r", "o">>), Some(<<"P", "R", "O">>), Some(<<"_">>)}

CategoryCriteria == {None, Some("Sports")}

MinPriceCriteria == {None, Some(100000)}

MaxPriceCriteria == {None, Some(50000), Some(1000000)}

InStockCriteria == {None, Some(TRUE), Some(FALSE)}

Criteria ==
    [name : NameCriteria, category : CategoryCriteria, minPrice : MinPriceCriteria,
     maxPrice : MaxPriceCriteria, inStock : InStockCriteria]

\* GET /products/search
SearchProducts(caller, c) ==
    LET auth == Authority(caller)
        sec == Security(auth, "GET", <<"products", "search">>, "")
        r == [Request("searchProducts", caller, 0, 0) EXCEPT !.criteria = c]
    IN  /\ nreq < MaxSearched
        /\ IF sec # 0
             THEN Respond([r EXCEPT !.status = sec])
             ELSE Respond([r EXCEPT !.status = 200, !.items = searchProducts(c)])
        /\ UNCHANGED <<products, nextProductId, users, nextUserId, loaded, now, client, acked, authProvider, productProvider>>

NextSearch ==
    \/ \E c \in CatalogCallers, req \in ProductRequests : CreateProduct(c, req)
    \/ \E c \in CatalogCallers, id \in TargetIds : DeleteProduct(c, id)
    \/ \E c \in Readers, cr \in Criteria : SearchProducts(c, cr)

SpecSearch == Init /\ [][NextSearch]_vars

(***************************************************************************)
(* AuthService and AuthController.                                         *)
(***************************************************************************)
\* Ids of the identities the user-management requests address: the seeded
\* ones, the registered ones, and one id that never exists.
TargetUserIds == 1 .. (Len(SeedUsers) + MaxRegistered + 1)

Roles == {"USER", "ADMIN"}

MalformedEmails == {"", "not-an-email"}

EmailInputs == MalformedEmails \cup {"user@example.com", "new@example.com"}

PasswordInputs == {"", "password", "secret"}

\* @Valid on AuthRequest: @NotBlank @Email email, @NotBlank password.
ValidAuthRequest(email, password) ==
    email \notin MalformedEmails /\ password # ""

\* UserRepository.existsByEmail
existsByEmail(email) == \E id \in DOMAIN users : users[id].email = email

\* UserRepository.save of a new row: the users table declares email UNIQUE.
saveUserThrowsMutant(u) == FALSE

saveUserThrows(u) == \E id \in DOMAIN users : users[id].email = u.email

\* The identity AuthService.register builds.
registerUserMutant(email, password) ==
    [email |-> email, password |-> Encode(password), role |-> "ADMIN"]

registerUser(email, password) ==
    [email |-> email, password |-> Encode(password), role |-> "USER"]

\* jwt.secret and jwt.expiration (milliseconds) of the deployed configuration.
secret == "jwt.secret"
expiration == 86400000

\* A JWT carries iat and exp as NumericDate, whole seconds: the builder drops
\* the milliseconds of the Date it is given.
MillisPerSecond == 1000
NumericDate(ms) == (ms \div MillisPerSecond) * MillisPerSecond

\* The claims map a token is built from; an absent claim is "" or 0.
NoClaims == [role |-> "", userId |-> 0]

\* JwtUtil.createToken, signed with signingKey at clock reading time.
createToken(claims, subject, time, signingKey) ==
    [sub |-> subject, role |-> claims.role, userId |-> claims.userId,
     iat |-> NumericDate(time), exp |-> NumericDate(time + expiration),
     key |-> signingKey]

\* JwtUtil.generateToken(User): subject, role and user id.
generateToken(u, id) ==
    createToken([role |-> u.role, userId |-> id], u.email, now, secret)

\* JwtUtil.generateToken(UserDetails): the subject only, no claims.
generateTokenOfUserDetails(username) ==
    createToken(NoClaims, username, now, secret)

\* authenticationManager.authenticate: the identity with this email whose
\* stored hash matches the password, 0 when there is none.
authenticate(email, password) ==
    IF \E id \in DOMAIN users :
          users[id].email = email /\ users[id].password = Encode(password)
      THEN CHOOSE id \in DOMAIN users :
          users[id].email = email /\ users[id].password = Encode(password)
      ELSE 0

\* Statuses the controller's catch blocks answer with.
registerFailedMutant == 400 + 9
registerFailed == 400
loginFailed == 401
updateUserRoleFailed == 404
deleteUserFailed == 404

AuthRequestRecord(op, caller, id) ==
    [NoRequest EXCEPT
       !.op = op, !.caller = caller, !.role = Authority(caller), !.id = id,
       !.existed = id \in DOMAIN users]

\* POST /auth/register
Register(caller, email, password) ==
    LET auth == Authority(caller)
        sec == Security(auth, "POST", <<"auth", "register">>, "")
        r == [AuthRequestRecord("register", caller, nextUserId) EXCEPT
                !.email = email, !.password = password, !.existed = existsByEmail(email)]
        u == registerUser(email, password)
    IN  /\ nreq < MaxRequests
        /\ IF sec # 0
             THEN /\ Respond([r EXCEPT !.status = sec])
                  /\ UNCHANGED <<users, nextUserId>>
           ELSE IF ~ValidAuthRequest(email, password)
             THEN /\ Respond([r EXCEPT !.status = handleValidationExceptions])
                  /\ UNCHANGED <<users, nextUserId>>
           ELSE IF existsByEmail(email)
             THEN /\ Respond([r EXCEPT !.status = registerFailed])
                  /\ UNCHANGED <<users, nextUserId>>
           ELSE IF saveUserThrows(u)
             THEN /\ Respond([r EXCEPT !.status = registerFailed])
                  /\ UNCHANGED <<users, nextUserId>>
           ELSE /\ nextUserId <= Len(SeedUsers) + MaxRegistered
                /\ users' = [i \in DOMAIN users \cup {nextUserId} |->
                               IF i = nextUserId THEN u ELSE users[i]]
                /\ nextUserId' = nextUserId + 1
                /\ Respond([r EXCEPT !.status = 201,
                                     !.token = generateToken(u, nextUserId)])
        /\ UNCHANGED <<products, nextProductId, loaded, now, client, acked, authProvider, productProvider>>

\* POST /auth/login
Login(email, password) ==
    LET sec == Security(Authority(0), "POST", <<"auth", "login">>, "")
        id == authenticate(email, password)
        r == [AuthRequestRecord("login", 0, id) EXCEPT
                !.email = email, !.password = password]
    IN  /\ nreq < MaxRequests
        /\ IF sec # 0
             THEN Respond([r EXCEPT !.status = sec])
           ELSE IF ~ValidAuthRequest(email, password)
             THEN Respond([r EXCEPT !.status = handleValidationExceptions])
           ELSE IF id = 0
             THEN Respond([r EXCEPT !.status = loginFailed])
           ELSE Respond([r EXCEPT !.status = 200,
                                  !.token = generateTokenOfUserDetails(email)])
        /\ UNCHANGED <<products, nextProductId, users, nextUserId, loaded, now, client, acked, authProvider, productProvider>>

\* GET /auth/users
GetAllUsers(caller) ==
    LET auth == Authority(caller)
        sec == Security(auth, "GET", <<"auth", "users">>, "ADMIN")
        r == AuthRequestRecord("getAllUsers", caller, 0)
    IN  /\ nreq < MaxRequests
        /\ Respond([r EXCEPT !.status = IF sec # 0 THEN sec ELSE 200])
        /\ UNCHANGED <<products, nextProductId, users, nextUserId, loaded, now, client, acked, authProvider, productProvider>>

\* PUT /auth/users/{userId}/role?role=
UpdateUserRole(caller, userId, role) ==
    LET auth == Authority(caller)
        sec == Security(auth, "PUT", <<"auth", "users", "{userId}", "role">>, "ADMIN")
        r == [AuthRequestRecord("updateUserRole", caller, userId) EXCEPT !.newRole = role]
    IN  /\ nreq < MaxRequests
        /\ IF sec # 0
             THEN /\ Respond([r EXCEPT !.status = sec])
                  /\ UNCHANGED users
           ELSE IF userId \notin DOMAIN users
             THEN /\ Respond([r EXCEPT !.status = updateUserRoleFailed])
                  /\ UNCHANGED users
           ELSE /\ users' = [users EXCEPT ![userId].role = role]
                /\ Respond([r EXCEPT !.status = 200])
        /\ UNCHANGED <<products, nextProductId, nextUserId, loaded, now, client, acked, authProvider, productProvider>>

\* DELETE /auth/users/{userId}
DeleteUser(caller, userId) ==
    LET auth == Authority(caller)
        sec == Security(auth, "DELETE", <<"auth", "users", "{userId}">>, "ADMIN")
        r == AuthRequestRecord("deleteUser", caller, userId)
    IN  /\ nreq < MaxRequests
        /\ IF sec # 0
             THEN /\ Respond([r EXCEPT !.status = sec])
                  /\ UNCHANGED users
           ELSE IF userId \notin DOMAIN users
             THEN /\ Respond([r EXCEPT !.status = deleteUserFailed])
                  /\ UNCHANGED users
           ELSE /\ users' = [i \in DOMAIN users \ {userId} |-> users[i]]
                /\ Respond([r EXCEPT !.status = 204])
        /\ UNCHANGED <<products, nextProductId, nextUserId, loaded, now, client, acked, authProvider, productProvider>>

NextAuth ==
    \/ \E c \in Callers, e \in EmailInputs, pw \in PasswordInputs : Register(c, e, pw)
    \/ \E e \in EmailInputs, pw \in PasswordInputs : Login(e, pw)
    \/ \E c \in Callers : GetAllUsers(c)
    \/ \E c \in Callers, id \in TargetUserIds, role \in Roles : UpdateUserRole(c, id, role)
    \/ \E c \in Callers, id \in TargetUserIds : DeleteUser(c, id)

SpecAuth == Init /\ [][NextAuth]_vars

(***************************************************************************)
(* Startup: the CommandLineRunner initializeData, run on any store.        *)
(***************************************************************************)
\* userRepository.findByEmail(email).isEmpty() on the rows us.
findByEmailIsEmpty(us, email) == ~\E id \in DOMAIN us : us[id].email = email

\* The guard of one seeded identity, and what it saves: [users, next].
initializeUser(store, row) ==
    IF findByEmailIsEmpty(store.users, row.email)
      THEN [users |-> [i \in DOMAIN store.users \cup {store.next} |->
                         IF i = store.next THEN row ELSE store.users[i]],
            next |-> store.next + 1]
      ELSE store

\* productRepository.count() == 0
createSampleProductsDueMutant(ps) == TRUE

createSampleProductsDue(ps) == DOMAIN ps = {}

\* createSampleProducts: the ten products, saved in order.
createSampleProducts(ps, next) ==
    [i \in DOMAIN ps \cup (next .. next + Len(SampleProducts) - 1) |->
       IF i \in DOMAIN ps THEN ps[i] ELSE SampleProducts[i - next + 1]]

\* The store holds both seeded emails and at least one product.
Seeded ==
    /\ \A k \in DOMAIN SeedUsers : ~findByEmailIsEmpty(users, SeedUsers[k].email)
    /\ DOMAIN products # {}

\* The application starts: initializeData runs on the store as it is.
InitializeData ==
    LET admin == initializeUser([users |-> users, next |-> nextUserId], SeedUsers[1])
        user == initializeUser(admin, SeedUsers[2])
    IN  /\ users' = user.users
        /\ nextUserId' = user.next
        /\ IF createSampleProductsDue(products)
             THEN /\ products' = createSampleProducts(products, nextProductId)
                  /\ nextProductId' = nextProductId + Len(SampleProducts)
           ELSE UNCHANGED <<products, nextProductId>>
        /\ resp' = [NoRequest EXCEPT !.op = "initializeData", !.existed = Seeded]
        /\ UNCHANGED <<loaded, nreq, now, client, acked, authProvider, productProvider>>

\* The store before the application ever started.
InitEmpty ==
    /\ products = <<>>
    /\ nextProductId = 1
    /\ users = <<>>
    /\ nextUserId = 1
    /\ loaded = [t \in Threads |-> Idle]
    /\ resp = NoRequest
    /\ nreq = 0
    /\ now = 0
    /\ client = NoClient
    /\ acked = <<>>
    /\ authProvider = NoAuthProvider
    /\ productProvider = NoProductProvider

NextSeed ==
    \/ InitializeData
    \/ \E c \in CatalogCallers, id \in TargetIds : DeleteProduct(c, id)
    \/ \E c \in CatalogCallers, id \in TargetUserIds, role \in Roles : UpdateUserRole(c, id, role)
    \/ \E c \in CatalogCallers, id \in TargetUserIds : DeleteUser(c, id)

SpecSeed == InitEmpty /\ [][NextSeed]_vars

(***************************************************************************)
(* GET /products: PageRequest, Sort and the Page of findAll(Pageable).     *)
(***************************************************************************)
DefaultPageSize == 10

\* The persistent attributes of Product a Sort can name.
ProductFields ==
    {"id", "name", "description", "price", "category", "stockQuantity",
     "createdAt", "updatedAt"}

\* PageRequest.of throws IllegalArgumentException for a negative page index
\* and for a size below one; Sort.by throws it for an empty property.
PageRequestThrows(page, size, sortBy) == page < 0 \/ size < 1 \/ sortBy = ""

\* findAll(Pageable) throws PropertyReferenceException for a sort property
\* that Product does not have.
findAllThrows(sortBy) == sortBy \notin ProductFields

\* ORDER BY id ASC over the stored rows.
RECURSIVE OrderById(_)
OrderById(ids) ==
    IF ids = {} THEN <<>>
    ELSE LET least == CHOOSE i \in ids : \A j \in ids : i <= j
         IN  <<least>> \o OrderById(ids \ {least})

Reverse(s) == [i \in 1 .. Len(s) |-> s[Len(s) + 1 - i]]

\* The rows of the page: OFFSET page * size LIMIT size of the ordered rows.
PageContent(ordered, page, size) ==
    LET offset == page * size
        n == Len(ordered)
    IN  IF offset >= n THEN <<>>
        ELSE SubSeq(ordered, offset + 1, IF offset + size < n THEN offset + size ELSE n)

\* PageableExecutionUtils.getPage: the total handed to PageImpl, the count
\* query being run only when the content does not tell.
getPageTotal(content, page, size, count) ==
    LET offset == page * size
    IN  IF offset = 0
          THEN IF size > Len(content) THEN Len(content) ELSE count
        ELSE IF Len(content) # 0 /\ size > Len(content)
          THEN offset + Len(content)
        ELSE count

\* PageImpl(content, pageable, total): the total it keeps.
PageImplTotal(content, page, size, total) ==
    LET offset == page * size
    IN  IF Len(content) # 0 /\ offset + size > total
          THEN offset + Len(content)
          ELSE total

\* Page.getTotalPages
getTotalPagesMutant(total, size) == total \div size

getTotalPages(total, size) ==
    IF size = 0 THEN 1 ELSE (total + size - 1) \div size

\* Page.hasNext, Page.isLast and Page.isFirst
hasNext(number, totalPages) == number + 1 < totalPages

isLast(number, totalPages) == ~hasNext(number, totalPages)

isFirst(number) == ~(number > 0)

\* productRepository.findAll(pageable) sorted by id.
findAll(page, size, sortDir) ==
    LET asc == OrderById(DOMAIN products)
        ordered == IF sortDir = "desc" THEN Reverse(asc) ELSE asc
        content == PageContent(ordered, page, size)
        total == PageImplTotal(content, page, size,
                               getPageTotal(content, page, size, Len(ordered)))
        totalPages == getTotalPages(total, size)
    IN  [content |-> content, totalElements |-> total, totalPages |-> totalPages,
         first |-> isFirst(page), last |-> isLast(page, totalPages)]

PageIndexes == -1 .. MaxPage

PageSizes == {0, 1, 3, DefaultPageSize, MaxCatalog + 1}

SortFields == {"id", "", "colour"}

SortDirections == {"asc", "desc"}

\* GET /products?page=&size=&sortBy=&sortDir=
GetAllProducts(caller, page, size, sortBy, sortDir) ==
    LET auth == Authority(caller)
        sec == Security(auth, "GET", <<"products">>, "")
        r == [Request("getAllProducts", caller, 0, 0) EXCEPT
                !.pageable = [page |-> page, size |-> size,
                              sortBy |-> sortBy, sortDir |-> sortDir]]
    IN  /\ nreq < MaxSearched
        /\ IF sec # 0
             THEN Respond([r EXCEPT !.status = sec])
           ELSE IF PageRequestThrows(page, size, sortBy) \/ findAllThrows(sortBy)
             THEN Respond([r EXCEPT !.status = handleRuntimeException])
           ELSE Respond([r EXCEPT !.status = 200,
                                  !.page = findAll(page, size, sortDir)])
        /\ UNCHANGED <<products, nextProductId, users, nextUserId, loaded, now, client, acked, authProvider, productProvider>>

\* Catalogs of several sizes: the seeded products followed by products that
\* were created later, cut to the first n rows by deletions.
CatalogSizes == {0, 1, Len(SampleProducts), MaxCatalog}

CatalogOf(n) ==
    [i \in 1 .. n |->
       IF i <= Len(SampleProducts) THEN SampleProducts[i]
       ELSE [name |-> "Widget", category |-> "", price |-> 9990, stockQuantity |-> MaxDelta]]

InitPage ==
    /\ \E n \in CatalogSizes :
          /\ products = CatalogOf(n)
          /\ nextProductId = (IF n > Len(SampleProducts) THEN n ELSE Len(SampleProducts)) + 1
    /\ users = [i \in 1 .. Len(SeedUsers) |-> SeedUsers[i]]
    /\ nextUserId = Len(SeedUsers) + 1
    /\ loaded = [t \in Threads |-> Idle]
    /\ resp = NoRequest
    /\ nreq = 0
    /\ now = 0
    /\ client = NoClient
    /\ acked = <<>>
    /\ authProvider = NoAuthProvider
    /\ productProvider = NoProductProvider

NextPage ==
    \/ \E c \in CatalogCallers, id \in TargetIds : DeleteProduct(c, id)
    \/ \E c \in Readers, page \in PageIndexes, size \in PageSizes,
          sortBy \in SortFields, sortDir \in SortDirections :
            GetAllProducts(c, page, size, sortBy, sortDir)

SpecPage == InitPage /\ [][NextPage]_vars

(***************************************************************************)
(* The Product entity's stock arithmetic, called on a loaded entity.       *)
(***************************************************************************)
\* Product.increaseStock(quantity) on the entity findById returned for id;
\* the response records what the call did to the entity in memory.
IncreaseStock(id, quantity) ==
    LET r == Request("increaseStock", 0, id, quantity)
        i == increaseStock(products[id], quantity)
    IN  /\ nreq < MaxRequests
        /\ id \in DOMAIN products
        /\ Respond([r EXCEPT
                      !.threw = i.threw,
                      !.body = Some(ProductResponse(
                                 [products[id] EXCEPT !.stockQuantity = i.stockQuantity]))])
        /\ UNCHANGED <<products, nextProductId, users, nextUserId, loaded, now, client,
                       acked, authProvider, productProvider>>

NextStock ==
    \/ \E id \in TargetIds, q \in Quantities : IncreaseStock(id, q)
    \/ \E c \in CatalogCallers, id \in TargetIds, q \in Quantities : UpdateStock(c, id, q)

SpecStock == Init /\ [][NextStock]_vars

(***************************************************************************)
(* The client: the axios instance of services/api.ts and its interceptors. *)
(***************************************************************************)
\* Statuses of the responses the backend answers with; 0 is a request that
\* failed without a response (error.response is undefined).
Statuses == {0, 200, 201, 204, 400, 401, 403, 404, 500}

ApiPaths == {"/auth/login", "/products"}

\* The tokens a login can have answered the browser with.
StoredTokens ==
    {generateTokenOfUserDetails(SeedUsers[i].email) : i \in 1 .. Len(SeedUsers)}

\* The request interceptor: the Authorization header of a request is the
\* token localStorage holds when the request is sent, if any.
requestInterceptor(c, seq, path) ==
    [seq |-> seq, path |-> path, authorization |-> c.token,
     afterLogout |-> c.loggedOut]

\* The response interceptor's error handler.
responseInterceptorMutant(c, status) ==
    IF status = 401 THEN [c EXCEPT !.location = "/login"] ELSE c

responseInterceptor(c, status) ==
    IF status = 401
      THEN [c EXCEPT !.token = NoToken, !.location = "/login"]
      ELSE c

\* Token storage after a login: the token is put in localStorage.
ClientStoreToken(token) ==
    /\ client.token # token
    /\ client' = [client EXCEPT !.token = token, !.location = "/",
                                !.loggedOut = FALSE]
    /\ UNCHANGED <<products, nextProductId, users, nextUserId, loaded, resp, nreq, now, acked, authProvider, productProvider>>

\* A component calls api.get / api.post / ...
ClientRequest(path) ==
    /\ nreq < MaxRequests
    /\ client' = [client EXCEPT
                    !.inflight = @ \cup {requestInterceptor(client, nreq, path)}]
    /\ nreq' = nreq + 1
    /\ UNCHANGED <<products, nextProductId, users, nextUserId, loaded, resp, now, acked, authProvider, productProvider>>

\* The response to a request in flight arrives.
ClientResponse(q, status) ==
    /\ q \in client.inflight
    /\ LET c == responseInterceptor(client, status)
       IN  client' = [c EXCEPT
                        !.inflight = @ \ {q},
                        !.lastStatus = status,
                        !.rejected = IF status = 401 THEN q.authorization ELSE @,
                        !.loggedOut = IF status = 401 THEN TRUE ELSE @]
    /\ UNCHANGED <<products, nextProductId, users, nextUserId, loaded, resp, nreq, now, acked, authProvider, productProvider>>

NextClient ==
    \/ \E token \in StoredTokens : ClientStoreToken(token)
    \/ \E path \in ApiPaths : ClientRequest(path)
    \/ \E q \in client.inflight, status \in Statuses : ClientResponse(q, status)

SpecClient == Init /\ [][NextClient]_vars

(***************************************************************************)
(* The client's AuthContext: authReducer and the AuthProvider around it.   *)
(***************************************************************************)
\* The User the provider builds from an AuthResponse, and the token of it.
ClientUser(i) == [id |-> i, email |-> SeedUsers[i].email, role |-> SeedUsers[i].role]

ClientToken(i) == generateTokenOfUserDetails(SeedUsers[i].email)

\* error.message after the response interceptor; 0 is no response at all.
errorMessage(status) == IF status = 0 THEN "Network Error" ELSE "Request failed"

AuthAction(type, user, token, message) ==
    [type |-> type, user |-> user, token |-> token, message |-> message]

AuthStart == AuthAction("AUTH_START", NoUser, NoToken, "")
AuthSuccess(i) == AuthAction("AUTH_SUCCESS", ClientUser(i), ClientToken(i), "")
AuthFailure(message) == AuthAction("AUTH_FAILURE", NoUser, NoToken, message)
AuthLogout == AuthAction("AUTH_LOGOUT", NoUser, NoToken, "")
ClearError == AuthAction("CLEAR_ERROR", NoUser, NoToken, "")

\* The payloads of AUTH_FAILURE: error.message, or the fallback of the call
\* when what was thrown is not an Error.
FailureMessages ==
    {errorMessage(status) : status \in {0, 401}} \cup {"Login failed", "Registration failed"}

\* Every action the reducer's type admits, over the payloads in use; the
\* user and the token of an AUTH_SUCCESS are any User and any string.
AuthActions ==
    {AuthStart, AuthLogout, ClearError}
      \cup {AuthAction("AUTH_SUCCESS", ClientUser(i), ClientToken(j), "") :
               i, j \in DOMAIN SeedUsers}
      \cup {AuthFailure(message) : message \in FailureMessages}

authReducerMutant(state, action) ==
    CASE action.type = "AUTH_START" ->
           [state EXCEPT !.isLoading = TRUE, !.error = None]
      [] action.type = "AUTH_SUCCESS" ->
           [state EXCEPT !.user = action.user, !.token = action.token,
                         !.isAuthenticated = TRUE, !.isLoading = FALSE, !.error = None]
      [] action.type = "AUTH_FAILURE" ->
           [state EXCEPT !.token = NoToken,
                         !.isAuthenticated = FALSE, !.isLoading = FALSE,
                         !.error = Some(action.message)]
      [] action.type = "AUTH_LOGOUT" ->
           [state EXCEPT !.user = NoUser, !.token = NoToken,
                         !.isAuthenticated = FALSE, !.isLoading = FALSE, !.error = None]
      [] action.type = "CLEAR_ERROR" -> [state EXCEPT !.error = None]
      [] OTHER -> state

authReducer(state, action) ==
    CASE action.type = "AUTH_START" ->
           [state EXCEPT !.isLoading = TRUE, !.error = None]
      [] action.type = "AUTH_SUCCESS" ->
           [state EXCEPT !.user = action.user, !.token = action.token,
                         !.isAuthenticated = TRUE, !.isLoading = FALSE, !.error = None]
      [] action.type = "AUTH_FAILURE" ->
           [state EXCEPT !.user = NoUser, !.token = NoToken,
                         !.isAuthenticated = FALSE, !.isLoading = FALSE,
                         !.error = Some(action.message)]
      [] action.type = "AUTH_LOGOUT" ->
           [state EXCEPT !.user = NoUser, !.token = NoToken,
                         !.isAuthenticated = FALSE, !.isLoading = FALSE, !.error = None]
      [] action.type = "CLEAR_ERROR" -> [state EXCEPT !.error = None]
      [] OTHER -> state

\* dispatch: the reducer runs, and the effect that depends on
\* state.isAuthenticated is due again when that value changed.
dispatch(provider, action) ==
    LET s == authReducer(provider.state, action)
    IN  [provider EXCEPT
           !.state = s, !.dispatched = action.type,
           !.effect = @ \/ s.isAuthenticated # provider.state.isAuthenticated]

\* axios resolves a response with a 2xx status and rejects every other.
Resolves(status) == status \in 200 .. 299

\* The page is loaded: the provider starts from initialState, which reads
\* the token from localStorage, and the calls of the page before are gone.
Mount ==
    /\ authProvider' = [NoAuthProvider EXCEPT !.state = authInitialState(client.token)]
    /\ UNCHANGED <<products, nextProductId, users, nextUserId, loaded, resp, nreq, now,
                   client, acked, productProvider>>

\* Any action is dispatched to the reducer.
Dispatch(action) ==
    /\ authProvider' = dispatch(authProvider, action)
    /\ UNCHANGED <<products, nextProductId, users, nextUserId, loaded, resp, nreq, now,
                   client, acked, productProvider>>

\* logout
Logout ==
    /\ client' = [client EXCEPT !.token = NoToken]
    /\ authProvider' = dispatch(authProvider, AuthLogout)
    /\ UNCHANGED <<products, nextProductId, users, nextUserId, loaded, resp, nreq, now,
                   acked, productProvider>>

\* The two calls of the provider that send credentials.
CredentialCalls == {"login", "register"}

\* login / register up to the await: AUTH_START, and the request is sent.
ProviderLogin(call) ==
    /\ call \notin authProvider.awaiting
    /\ authProvider' = [dispatch(authProvider, AuthStart) EXCEPT !.awaiting = @ \cup {call}]
    /\ UNCHANGED <<products, nextProductId, users, nextUserId, loaded, resp, nreq, now,
                   client, acked, productProvider>>

\* login / register from the await on: the response is user i's
\* AuthResponse, or a rejection that went through the response interceptor.
ProviderLoginSettled(call, status, i) ==
    /\ call \in authProvider.awaiting
    /\ IF Resolves(status)
         THEN /\ client' = [client EXCEPT !.token = ClientToken(i)]
              /\ authProvider' = [dispatch(authProvider, AuthSuccess(i)) EXCEPT
                                    !.awaiting = @ \ {call}]
       ELSE /\ client' = responseInterceptor(client, status)
            /\ authProvider' = [dispatch(authProvider, AuthFailure(errorMessage(status))) EXCEPT
                                  !.awaiting = @ \ {call}]
    /\ UNCHANGED <<products, nextProductId, users, nextUserId, loaded, resp, nreq, now,
                   acked, productProvider>>

\* clearError
ProviderClearError ==
    /\ authProvider.state.error # None
    /\ authProvider' = dispatch(authProvider, ClearError)
    /\ UNCHANGED <<products, nextProductId, users, nextUserId, loaded, resp, nreq, now,
                   client, acked, productProvider>>

\* The effect on [state.isAuthenticated]: with a stored token and no
\* authenticated state, validateStoredToken starts.
ValidateStoredToken ==
    /\ authProvider.effect
    /\ authProvider' =
          IF client.token # NoToken /\ ~authProvider.state.isAuthenticated
            THEN [dispatch(authProvider, AuthStart) EXCEPT
                    !.awaiting = @ \cup {"validateToken"}, !.effect = FALSE]
            ELSE [authProvider EXCEPT !.effect = FALSE]
    /\ UNCHANGED <<products, nextProductId, users, nextUserId, loaded, resp, nreq, now,
                   client, acked, productProvider>>

\* validateStoredToken from the await on.
ValidateStoredTokenSettled(status, i) ==
    /\ "validateToken" \in authProvider.awaiting
    /\ IF Resolves(status)
         THEN /\ client' = client
              /\ authProvider' = [dispatch(authProvider, AuthSuccess(i)) EXCEPT
                                    !.awaiting = @ \ {"validateToken"}]
       ELSE /\ client' = [responseInterceptor(client, status) EXCEPT !.token = NoToken]
            /\ authProvider' = [dispatch(authProvider, AuthLogout) EXCEPT
                                  !.awaiting = @ \ {"validateToken"}]
    /\ UNCHANGED <<products, nextProductId, users, nextUserId, loaded, resp, nreq, now,
                   acked, productProvider>>

NextAuthProvider ==
    \/ Mount
    \/ \E call \in CredentialCalls : ProviderLogin(call)
    \/ \E call \in CredentialCalls, status \in Statuses, i \in DOMAIN SeedUsers :
          ProviderLoginSettled(call, status, i)
    \/ Logout
    \/ ProviderClearError
    \/ ValidateStoredToken
    \/ \E status \in Statuses, i \in DOMAIN SeedUsers : ValidateStoredTokenSettled(status, i)

SpecAuthProvider == Init /\ [][NextAuthProvider]_vars

\* The reducer under every sequence of its actions: what the provider
\* dispatches, and any other action on any state, with any stored token.
NextAuthReducer ==
    \/ NextAuthProvider
    \/ \E token \in StoredTokens : ClientStoreToken(token)
    \/ \E action \in AuthActions : Dispatch(action)

SpecAuthReducer == Init /\ [][NextAuthReducer]_vars

(***************************************************************************)
(* The client's ProductContext: productReducer and the ProductProvider.    *)
(***************************************************************************)
\* The ids the client asks for.
ViewIds == {1, 2}

\* A product as the backend answers it, before and after an update.
ViewProduct(i) == [id |-> i, name |-> SampleProducts[i].name]
Renamed(i) == [id |-> i, name |-> "Renamed"]

\* The lists GET /products and GET /products/search answer with.
ProductLists == {<<>>, <<ViewProduct(1), ViewProduct(2)>>}

ProductAction(type, list, product, id, message) ==
    [type |-> type, list |-> list, product |-> product, id |-> id, message |-> message]

ProductsLoading == ProductAction("PRODUCTS_LOADING", <<>>, NoProduct, 0, "")
ProductsFailure(message) == ProductAction("PRODUCTS_FAILURE", <<>>, NoProduct, 0, message)
ProductSuccess(product) == ProductAction("PRODUCT_SUCCESS", <<>>, product, 0, "")
ProductClearError == ProductAction("CLEAR_ERROR", <<>>, NoProduct, 0, "")

\* products.map(product => product.id === payload.id ? payload : product)
RECURSIVE MapUpdated(_, _)
MapUpdated(list, payload) ==
    IF list = <<>> THEN <<>>
    ELSE <<IF Head(list).id = payload.id THEN payload ELSE Head(list)>>
           \o MapUpdated(Tail(list), payload)

\* products.filter(product => product.id !== payload)
RECURSIVE FilterDeleted(_, _)
FilterDeleted(list, payload) ==
    IF list = <<>> THEN <<>>
    ELSE (IF Head(list).id # payload THEN <<Head(list)>> ELSE <<>>)
           \o FilterDeleted(Tail(list), payload)

productReducerMutant(state, action) ==
    CASE action.type = "PRODUCTS_LOADING" ->
           [state EXCEPT !.isLoading = TRUE, !.error = None]
      [] action.type = "PRODUCTS_SUCCESS" ->
           [state EXCEPT !.products = action.list, !.isLoading = FALSE, !.error = None]
      [] action.type = "PRODUCTS_PAGINATED_SUCCESS" ->
           [state EXCEPT !.paginatedProducts = Some(action.list),
                         !.isLoading = FALSE, !.error = None]
      [] action.type = "PRODUCT_SUCCESS" ->
           [state EXCEPT !.selectedProduct = action.product,
                         !.isLoading = FALSE, !.error = None]
      [] action.type = "PRODUCT_CREATED" ->
           [state EXCEPT !.products = Append(@, action.product),
                         !.isLoading = FALSE, !.error = None]
      [] action.type = "PRODUCT_UPDATED" ->
           [state EXCEPT !.products = MapUpdated(@, action.product),
                         !.selectedProduct = action.product,
                         !.isLoading = FALSE, !.error = None]
      [] action.type = "PRODUCT_DELETED" ->
           [state EXCEPT !.products = FilterDeleted(@, action.id),
                         !.isLoading = FALSE, !.error = None]
      [] action.type = "CATEGORIES_SUCCESS" ->
           [state EXCEPT !.categories = action.list, !.isLoading = FALSE, !.error = None]
      [] action.type = "PRODUCTS_FAILURE" ->
           [state EXCEPT !.isLoading = FALSE, !.error = Some(action.message)]
      [] action.type = "CLEAR_ERROR" -> [state EXCEPT !.error = None]
      [] OTHER -> state

productReducer(state, action) ==
    CASE action.type = "PRODUCTS_LOADING" ->
           [state EXCEPT !.isLoading = TRUE, !.error = None]
      [] action.type = "PRODUCTS_SUCCESS" ->
           [state EXCEPT !.products = action.list, !.isLoading = FALSE, !.error = None]
      [] action.type = "PRODUCTS_PAGINATED_SUCCESS" ->
           [state EXCEPT !.paginatedProducts = Some(action.list),
                         !.isLoading = FALSE, !.error = None]
      [] action.type = "PRODUCT_SUCCESS" ->
           [state EXCEPT !.selectedProduct = action.product,
                         !.isLoading = FALSE, !.error = None]
      [] action.type = "PRODUCT_CREATED" ->
           [state EXCEPT !.products = Append(@, action.product),
                         !.isLoading = FALSE, !.error = None]
      [] action.type = "PRODUCT_UPDATED" ->
           [state EXCEPT !.products = MapUpdated(@, action.product),
                         !.selectedProduct = action.product,
                         !.isLoading = FALSE, !.error = None]
      [] action.type = "PRODUCT_DELETED" ->
           [state EXCEPT !.products = FilterDeleted(@, action.id),
                         !.selectedProduct = NoProduct,
                         !.isLoading = FALSE, !.error = None]
      [] action.type = "CATEGORIES_SUCCESS" ->
           [state EXCEPT !.categories = action.list, !.isLoading = FALSE, !.error = None]
      [] action.type = "PRODUCTS_FAILURE" ->
           [state EXCEPT !.isLoading = FALSE, !.error = Some(action.message)]
      [] action.type = "CLEAR_ERROR" -> [state EXCEPT !.error = None]
      [] OTHER -> state

\* The calls of the provider that await a response.
Call(op, id, paged) == [op |-> op, id |-> id, paged |-> paged]

ProviderCalls ==
    {Call("fetchProducts", 0, paged) : paged \in BOOLEAN}
      \cup {Call(op, id, FALSE) : op \in {"fetchProduct", "updateProduct", "deleteProduct"},
                                  id \in ViewIds}
      \cup {Call(op, 0, FALSE) : op \in {"createProduct", "fetchCategories", "searchProducts"}}

\* The actions a call dispatches when its request resolves, one for each
\* response the backend may send.
Resolutions(call) ==
    CASE call.op = "fetchProducts" /\ call.paged ->
           {ProductAction("PRODUCTS_PAGINATED_SUCCESS", <<ViewProduct(1)>>, NoProduct, 0, "")}
      [] call.op \in {"fetchProducts", "searchProducts"} ->
           {ProductAction("PRODUCTS_SUCCESS", list, NoProduct, 0, "") : list \in ProductLists}
      [] call.op = "fetchProduct" -> {ProductSuccess(ViewProduct(call.id))}
      [] call.op = "createProduct" ->
           {ProductAction("PRODUCT_CREATED", <<>>, ViewProduct(i), 0, "") : i \in ViewIds}
      [] call.op = "updateProduct" ->
           {ProductAction("PRODUCT_UPDATED", <<>>, Renamed(call.id), 0, "")}
      [] call.op = "deleteProduct" ->
           {ProductAction("PRODUCT_DELETED", <<>>, NoProduct, call.id, "")}
      [] OTHER ->
           {ProductAction("CATEGORIES_SUCCESS", <<"Electronics">>, NoProduct, 0, "")}

Listed(list, id) == \E k \in DOMAIN list : list[k].id = id

\* Any of the seven calls up to its await: PRODUCTS_LOADING, and the request
\* is sent.
ProviderCall(call) ==
    /\ nreq < MaxRequests
    /\ call \notin productProvider.awaiting
    /\ nreq' = nreq + 1
    /\ productProvider' =
          [productProvider EXCEPT
             !.state = productReducer(@, ProductsLoading),
             !.awaiting = @ \cup {call}]
    /\ UNCHANGED <<products, nextProductId, users, nextUserId, loaded, resp, now,
                   client, acked, authProvider>>

\* The call from its await on: the success action of the call, or
\* PRODUCTS_FAILURE after the response interceptor.
ProviderCallSettled(call, status, action) ==
    LET s == productProvider.state
        a == IF Resolves(status) THEN action ELSE ProductsFailure(errorMessage(status))
    IN  /\ call \in productProvider.awaiting
        /\ action \in Resolutions(call)
        /\ client' = IF Resolves(status) THEN client ELSE responseInterceptor(client, status)
        /\ productProvider' =
              [productProvider EXCEPT
                 !.state = productReducer(@, a),
                 !.awaiting = @ \ {call},
                 !.settled = [call |-> call, ok |-> Resolves(status),
                              listed |-> Listed(s.products, call.id),
                              selected |-> s.selectedProduct # NoProduct]]
        /\ UNCHANGED <<products, nextProductId, users, nextUserId, loaded, resp, nreq, now,
                       acked, authProvider>>

\* clearError
ProductProviderClearError ==
    /\ productProvider.state.error # None
    /\ productProvider' = [productProvider EXCEPT !.state = productReducer(@, ProductClearError)]
    /\ UNCHANGED <<products, nextProductId, users, nextUserId, loaded, resp, nreq, now,
                   client, acked, authProvider>>

\* clearSelectedProduct: PRODUCT_SUCCESS with a null payload.
ClearSelectedProduct ==
    /\ productProvider.state.selectedProduct # NoProduct
    /\ productProvider' =
          [productProvider EXCEPT !.state = productReducer(@, ProductSuccess(NoProduct))]
    /\ UNCHANGED <<products, nextProductId, users, nextUserId, loaded, resp, nreq, now,
                   client, acked, authProvider>>

NextProductProvider ==
    \/ \E call \in ProviderCalls : ProviderCall(call)
    \/ \E call \in ProviderCalls, status \in Statuses :
          \E action \in Resolutions(call) : ProviderCallSettled(call, status, action)
    \/ ProductProviderClearError
    \/ ClearSelectedProduct

SpecProductProvider == Init /\ [][NextProductProvider]_vars

(***************************************************************************)
(* JwtUtil: validation of a token against the clock.                       *)
(***************************************************************************)
\* Jwts.parser().verifyWith(key).build().parseSignedClaims(token) throws when
\* the signature does not verify and when the clock reading is after exp.
extractAllClaimsThrows(token, time) ==
    token.key # secret \/ time > token.exp

\* JwtUtil.isTokenExpired: extractExpiration(token).before(new Date()), and
\* true when reading the claims throws.
isTokenExpired(token, time) ==
    IF extractAllClaimsThrows(token, time) THEN TRUE ELSE token.exp < time

\* JwtUtil.validateToken(String)
validateToken(token, time) == ~isTokenExpired(token, time)

\* JwtUtil.validateToken(String, UserDetails): extractUsername reads the
\* claims, and whatever that throws is caught and answered false.
validateTokenOfUserDetailsMutant(token, username, time) ==
    [threw |-> extractAllClaimsThrows(token, time),
     value |-> token.sub = username /\ ~isTokenExpired(token, time)]

validateTokenOfUserDetails(token, username, time) ==
    IF extractAllClaimsThrows(token, time)
      THEN [threw |-> FALSE, value |-> FALSE]
      ELSE [threw |-> FALSE,
            value |-> token.sub = username /\ ~isTokenExpired(token, time)]

\* Clock readings around the second boundaries and around the lifetime.
Instants ==
    { k * expiration + s * MillisPerSecond + m :
        k \in 0 .. 1, s \in 0 .. MaxLateSeconds, m \in {0, 1, MillisPerSecond - 1} }

\* The token of another issuer: same content, signed with a different key.
Forged(token) == [token EXCEPT !.key = "forged"]

\* Time passes.
Tick(t) ==
    /\ t > now
    /\ now' = t
    /\ UNCHANGED <<products, nextProductId, users, nextUserId, loaded, resp, nreq, client, acked, authProvider, productProvider>>

\* A caller presents the token it was answered, or a forgery of it.
ValidateToken(forge) ==
    LET token == IF forge THEN Forged(resp.token) ELSE resp.token
    IN  /\ nreq < MaxRequests
        /\ resp.token # NoToken
        /\ Respond([NoRequest EXCEPT !.op = "validateToken", !.token = token,
                                     !.valid = validateToken(token, now)])
        /\ UNCHANGED <<products, nextProductId, users, nextUserId, loaded, now, client, acked, authProvider, productProvider>>

\* A string that is not a signed JWT: parsing it throws.
Malformed == [NoToken EXCEPT !.sub = "not.a.jwt"]

\* What a caller may present in place of the token it was answered.
Presented(kind, token) ==
    CASE kind = "issued" -> token
      [] kind = "forged" -> Forged(token)
      [] OTHER -> Malformed

Presentations == {"issued", "forged", "malformed"}

\* The usernames of the UserDetails a token is validated against.
Usernames == {SeedUsers[i].email : i \in DOMAIN SeedUsers}

\* validateToken(String) of a string that is not a JWT.
ValidateMalformedToken ==
    /\ nreq < MaxRequests
    /\ Respond([NoRequest EXCEPT !.op = "validateToken", !.token = Malformed,
                                 !.valid = validateToken(Malformed, now)])
    /\ UNCHANGED <<products, nextProductId, users, nextUserId, loaded, now, client, acked, authProvider, productProvider>>

\* validateToken(String, UserDetails) of the token a caller presents.
ValidateTokenOfUserDetails(kind, username) ==
    LET token == Presented(kind, resp.token)
        v == validateTokenOfUserDetails(token, username, now)
    IN  /\ nreq < MaxRequests
        /\ resp.token # NoToken
        /\ Respond([NoRequest EXCEPT !.op = "validateTokenOfUserDetails",
                                     !.token = token, !.email = username,
                                     !.valid = v.value, !.threw = v.threw])
        /\ UNCHANGED <<products, nextProductId, users, nextUserId, loaded, now, client, acked, authProvider, productProvider>>

NextToken ==
    \/ \E t \in Instants : Tick(t)
    \/ \E e \in EmailInputs, pw \in PasswordInputs : Login(e, pw)
    \/ \E forge \in BOOLEAN : ValidateToken(forge)
    \/ ValidateMalformedToken
    \/ \E kind \in Presentations, username \in Usernames :
          ValidateTokenOfUserDetails(kind, username)

SpecToken == Init /\ [][NextToken]_vars

(***************************************************************************)
(* Interleaved requests.  ProductService is not transactional: findById    *)
(* and save are two store operations, and the entity a handler holds in    *)
(* between is its own detached copy, which save writes back whole.         *)
(***************************************************************************)
\* updateStock up to and including findById.
BeginUpdateStock(t, caller, id, quantity) ==
    LET auth == Authority(caller)
        sec == Security(auth, "PUT", <<"products", "{id}", "stock">>, "ADMIN")
        r == Request("updateStock", caller, id, quantity)
    IN  /\ nreq < MaxOverlapped
        /\ loaded[t].op = "idle"
        /\ nreq' = nreq + 1
        /\ IF sec # 0
             THEN resp' = [r EXCEPT !.status = sec] /\ UNCHANGED loaded
           ELSE IF id \notin DOMAIN products
             THEN resp' = [r EXCEPT !.status = updateStockFailed] /\ UNCHANGED loaded
           ELSE /\ loaded' = [loaded EXCEPT ![t] =
                                [op |-> "updateStock", caller |-> caller, id |-> id,
                                 arg |-> quantity, entity |-> products[id]]]
                /\ UNCHANGED resp
        /\ UNCHANGED <<products, nextProductId, users, nextUserId, now, client, acked, authProvider, productProvider>>

\* updateStock from the try block on: stock arithmetic, save, response.
EndUpdateStockMutant(t) ==
    LET l == loaded[t]
        u == updateStockBody(products[l.id], l.arg)
        r == [NoRequest EXCEPT
                !.op = "updateStock", !.caller = l.caller, !.role = Authority(l.caller),
                !.id = l.id, !.arg = l.arg, !.existed = TRUE,
                !.old = l.entity.stockQuantity]
    IN  /\ l.op = "updateStock"
        /\ loaded' = [loaded EXCEPT ![t] = Idle]
        /\ IF u.threw
             THEN resp' = [r EXCEPT !.status = updateStockFailed] /\ UNCHANGED products
           ELSE /\ products' = [products EXCEPT ![l.id] = u.product]
                /\ resp' = [r EXCEPT !.status = 200]
        /\ acked' = IF u.threw THEN acked ELSE Append(acked, [id |-> l.id, arg |-> l.arg])
        /\ UNCHANGED <<nextProductId, users, nextUserId, nreq, now, client, authProvider, productProvider>>

EndUpdateStock(t) ==
    LET l == loaded[t]
        u == updateStockBody(l.entity, l.arg)
        r == [NoRequest EXCEPT
                !.op = "updateStock", !.caller = l.caller, !.role = Authority(l.caller),
                !.id = l.id, !.arg = l.arg, !.existed = TRUE,
                !.old = l.entity.stockQuantity]
    IN  /\ l.op = "updateStock"
        /\ loaded' = [loaded EXCEPT ![t] = Idle]
        /\ IF u.threw
             THEN resp' = [r EXCEPT !.status = updateStockFailed] /\ UNCHANGED products
           ELSE /\ products' = [products EXCEPT ![l.id] = u.product]
                /\ resp' = [r EXCEPT !.status = 200]
        /\ acked' = IF u.threw THEN acked ELSE Append(acked, [id |-> l.id, arg |-> l.arg])
        /\ UNCHANGED <<nextProductId, users, nextUserId, nreq, now, client, authProvider, productProvider>>

\* updateProduct up to and including findById.
BeginUpdateProduct(t, caller, id, req) ==
    LET auth == Authority(caller)
        sec == Security(auth, "PUT", <<"products", "{id}">>, "ADMIN")
        r == Request("updateProduct", caller, id, req.stockQuantity)
    IN  /\ nreq < MaxOverlapped
        /\ loaded[t].op = "idle"
        /\ nreq' = nreq + 1
        /\ IF sec # 0
             THEN resp' = [r EXCEPT !.status = sec] /\ UNCHANGED loaded
           ELSE IF ~ValidProductRequest(req)
             THEN resp' = [r EXCEPT !.status = handleValidationExceptions] /\ UNCHANGED loaded
           ELSE IF id \notin DOMAIN products
             THEN resp' = [r EXCEPT !.status = updateProductFailed] /\ UNCHANGED loaded
           ELSE /\ loaded' = [loaded EXCEPT ![t] =
                                [op |-> "updateProduct", caller |-> caller, id |-> id,
                                 arg |-> req.stockQuantity,
                                 entity |-> [name |-> req.name, category |-> req.category, price |-> req.price,
                                             stockQuantity |-> req.stockQuantity]]]
                /\ UNCHANGED resp
        /\ UNCHANGED <<products, nextProductId, users, nextUserId, now, client, acked, authProvider, productProvider>>

\* updateProduct from the setters on: the entity carries the request's
\* fields, save writes it, response.
EndUpdateProduct(t) ==
    LET l == loaded[t]
        u == updateProductBody(products[l.id], l.entity)
        r == [NoRequest EXCEPT
                !.op = "updateProduct", !.caller = l.caller, !.role = Authority(l.caller),
                !.id = l.id, !.arg = l.arg, !.existed = TRUE,
                !.old = products[l.id].stockQuantity]
    IN  /\ l.op = "updateProduct"
        /\ loaded' = [loaded EXCEPT ![t] = Idle]
        /\ IF u.threw
             THEN resp' = [r EXCEPT !.status = updateProductFailed] /\ UNCHANGED products
           ELSE /\ products' = [products EXCEPT ![l.id] = u.product]
                /\ resp' = [r EXCEPT !.status = 200]
        /\ UNCHANGED <<nextProductId, users, nextUserId, nreq, now, client, acked, authProvider, productProvider>>

\* POST /products, served between the steps of the other handlers.
CreateProductOverlapped(caller, req) ==
    nreq < MaxOverlapped /\ CreateProduct(caller, req)

NextInterleaved ==
    \/ \E c \in CatalogCallers, req \in ProductRequests : CreateProductOverlapped(c, req)
    \/ \E t \in Threads, c \in CatalogCallers, id \in TargetIds, q \in Quantities :
          BeginUpdateStock(t, c, id, q)
    \/ \E t \in Threads : EndUpdateStock(t)
    \/ \E t \in Threads, c \in CatalogCallers, id \in TargetIds, req \in ProductRequests :
          BeginUpdateProduct(t, c, id, req)
    \/ \E t \in Threads : EndUpdateProduct(t)

SpecInterleaved == Init /\ [][NextInterleaved]_vars

(***************************************************************************)
(* Overlapping registrations.  AuthService.register is not transactional:  *)
(* existsByEmail and save are two statements of the store, and another     *)
(* handler's statements may run between them.                              *)
(***************************************************************************)
\* register up to and including the existsByEmail check; the handler then
\* holds the User it built, not yet saved.
BeginRegister(t, email, password) ==
    LET sec == Security(Authority(0), "POST", <<"auth", "register">>, "")
        r == [AuthRequestRecord("register", 0, nextUserId) EXCEPT
                !.email = email, !.password = password, !.existed = existsByEmail(email)]
    IN  /\ nreq < MaxOverlapped
        /\ loaded[t].op = "idle"
        /\ nreq' = nreq + 1
        /\ IF sec # 0
             THEN resp' = [r EXCEPT !.status = sec] /\ UNCHANGED loaded
           ELSE IF ~ValidAuthRequest(email, password)
             THEN resp' = [r EXCEPT !.status = handleValidationExceptions] /\ UNCHANGED loaded
           ELSE IF existsByEmail(email)
             THEN resp' = [r EXCEPT !.status = registerFailed] /\ UNCHANGED loaded
           ELSE /\ loaded' = [loaded EXCEPT ![t] =
                                [op |-> "register", caller |-> 0, id |-> 0, arg |-> 0,
                                 entity |-> registerUser(email, password)]]
                /\ UNCHANGED resp
        /\ UNCHANGED <<products, nextProductId, users, nextUserId, now, client, acked, authProvider, productProvider>>

\* register from save on: the insert, the token, the response.
EndRegister(t) ==
    LET l == loaded[t]
        u == l.entity
        r == [AuthRequestRecord("register", 0, nextUserId) EXCEPT
                !.email = u.email, !.password = u.password, !.existed = FALSE]
    IN  /\ l.op = "register"
        /\ loaded' = [loaded EXCEPT ![t] = Idle]
        /\ IF saveUserThrows(u)
             THEN /\ resp' = [r EXCEPT !.status = registerFailed]
                  /\ UNCHANGED <<users, nextUserId>>
           ELSE /\ users' = [i \in DOMAIN users \cup {nextUserId} |->
                               IF i = nextUserId THEN u ELSE users[i]]
                /\ nextUserId' = nextUserId + 1
                /\ resp' = [r EXCEPT !.status = 201,
                                     !.token = generateToken(u, nextUserId)]
        /\ UNCHANGED <<products, nextProductId, nreq, now, client, acked, authProvider, productProvider>>

\* The emails overlapping registrations are sent with: two of them fresh.
OverlappedEmails == EmailInputs \cup {"other@example.com"}

NextRegister ==
    \/ \E t \in Threads, email \in OverlappedEmails, password \in PasswordInputs :
          BeginRegister(t, email, password)
    \/ \E t \in Threads : EndRegister(t)

SpecRegister == Init /\ [][NextRegister]_vars

(***************************************************************************)
(* Claims about the catalog.                                               *)
(***************************************************************************)
\* C1: in every state reachable by any sequence and any interleaving of
\* createProduct, updateProduct and updateStock requests, every stored
\* product has stockQuantity >= 0.
StockNeverNegative ==
    \A id \in DOMAIN products : products[id].stockQuantity >= 0

\* C1 witness: an updateStock request saved a decrease while another
\* updateStock request held its own copy of the same product.
StockNeverNegativeWitness ==
    /\ resp.op = "updateStock" /\ resp.status = 200 /\ resp.arg < 0
    /\ \E t \in Threads : loaded[t].op = "updateStock" /\ loaded[t].id = resp.id

\* An updateStock request that passed security and found its product.
ServedStockUpdate(r) ==
    r.op = "updateStock" /\ r.role = "ADMIN" /\ r.existed

\* C2: for every existing product and every delta greater than its current
\* stock, updateStock(id, -delta) by an authorized caller answers 400 and
\* leaves the store as it was; this holds of every such call, so also of the
\* same call made again.
DecreaseBeyondStockFails ==
    [][(ServedStockUpdate(resp') /\ resp'.arg < 0 /\ resp'.arg < -resp'.old)
          => (resp'.status = 400 /\ products' = products)]_vars

\* C2 witness: a product with stock 0 was asked to give up 1 and the
\* request was refused with 400.
DecreaseBeyondStockFailsWitness ==
    /\ ServedStockUpdate(resp) /\ resp.arg = -1 /\ resp.old = 0
    /\ resp.status = 400 /\ products[resp.id].stockQuantity = 0

\* C3 as claimed: updateStock(id, 0) on an existing product is rejected with
\* 400 instead of being answered as a successful update.
ZeroQuantityRejected ==
    (ServedStockUpdate(resp) /\ resp.arg = 0) => resp.status = 400

\* C3 as amended: updateStock(id, 0) on an existing product is accepted: it
\* answers 200 and leaves the store as it was.
ZeroQuantityAccepted ==
    [][(ServedStockUpdate(resp') /\ resp'.arg = 0)
          => (resp'.status = 200 /\ products' = products)]_vars

\* C3 witness: an updateStock with quantity 0 was served on an existing product.
ZeroQuantityAcceptedWitness ==
    ServedStockUpdate(resp) /\ resp.arg = 0 /\ resp.status = 200

\* C4 as claimed: PUT /products/{id}/stock for an id that is not in the
\* catalog answers 404, and 400 is answered only for an existing product.
StockOfAbsentIdIs404 ==
    (resp.op = "updateStock" /\ resp.role = "ADMIN")
        => /\ ~resp.existed => resp.status = 404
           /\ resp.status = 400 => resp.existed

\* C5 as claimed: for every existing product with stock s and every
\* delta > 0, updateStock(id, +delta) succeeds, and an updateStock(id, -delta)
\* that follows it directly succeeds too and leaves the stock equal to s.
RoundTripAlways ==
    [][/\ (ServedStockUpdate(resp') /\ resp'.arg > 0) => resp'.status = 200
       /\ (/\ ServedStockUpdate(resp) /\ resp.arg > 0
           /\ ServedStockUpdate(resp') /\ resp'.id = resp.id /\ resp'.arg = -resp.arg)
            => /\ resp.status = 200 /\ resp'.status = 200
               /\ products'[resp.id].stockQuantity = resp.old]_vars

\* C5 as amended: for every existing product with stock s and every
\* delta > 0 with s + delta <= 999999, updateStock(id, +delta) succeeds and an
\* updateStock(id, -delta) that follows it directly succeeds too and leaves the
\* stock equal to s; with s + delta > 999999 the increase is refused with 400
\* and the stock stays s.
RoundTripWithinMax ==
    [][/\ (ServedStockUpdate(resp') /\ resp'.arg > 0)
            => IF resp'.arg <= MaxStockQuantity - resp'.old
                 THEN resp'.status = 200
                 ELSE resp'.status = 400 /\ products' = products
       /\ (/\ ServedStockUpdate(resp) /\ resp.arg > 0
           /\ resp.arg <= MaxStockQuantity - resp.old
           /\ ServedStockUpdate(resp') /\ resp'.id = resp.id /\ resp'.arg = -resp.arg)
            => /\ resp.status = 200 /\ resp'.status = 200
               /\ products'[resp.id].stockQuantity = resp.old]_vars

\* C5 witness: after two requests the last one is a successful decrease by
\* delta of a stock that stood at s + delta, and the catalog is again the one
\* the run started from: the increase by delta was undone.
RoundTripWithinMaxWitness ==
    /\ nreq = 2 /\ ServedStockUpdate(resp) /\ resp.arg < 0 /\ resp.status = 200
    /\ resp.id <= Len(SampleProducts)
    /\ resp.old = SampleProducts[resp.id].stockQuantity - resp.arg
    /\ products = [i \in 1 .. Len(SampleProducts) |-> SampleProducts[i]]

CatalogWrites == {"createProduct", "updateProduct", "deleteProduct", "updateStock"}

AnonymousGets401 ==
    (resp.op \notin {"none", "register", "login"} /\ resp.role = "ANONYMOUS")
        => resp.status = 401

NeverSelfDeleted ==
    [][(resp'.op = "deleteUser" /\ resp'.caller = resp'.id /\ resp'.id \in DOMAIN users)
          => resp'.id \in DOMAIN users']_vars

\* C10: register with an email that already belongs to an identity answers
\* 400 whatever the password, issues no token, and leaves the identity store
\* unchanged.
RegisterExistingEmailFails ==
    [][(resp'.op = "register" /\ existsByEmail(resp'.email))
          => /\ resp'.status = 400 /\ resp'.token = NoToken
             /\ users' = users /\ nextUserId' = nextUserId]_vars

\* C10 witness: register was refused for the email of an identity, with a
\* valid password that is not that identity's.
RegisterExistingEmailFailsWitness ==
    /\ resp.op = "register" /\ resp.existed /\ resp.status = 400
    /\ resp.password = "secret" /\ resp.token = NoToken
    /\ \E id \in DOMAIN users :
          users[id].email = resp.email /\ users[id].password = Encode("password")

\* C11: a login that succeeds (in particular the login of an identity that was
\* just registered) answers with a token that embeds the identity's current
\* role and its user id, as the token answered by register does.
LoginTokenEmbedsRoleAndId ==
    /\ (resp.op = "register" /\ resp.status = 201) =>
          /\ resp.token.role = "USER"
          /\ resp.token.userId = resp.id
    /\ (resp.op = "login" /\ resp.status = 200) =>
          /\ resp.id \in DOMAIN users
          /\ resp.token.sub = users[resp.id].email
          /\ resp.token.role = users[resp.id].role
          /\ resp.token.userId = resp.id

\* C12: validateToken accepts a token iff its signature verifies against the
\* server's key and the clock is strictly before the token's expiry.
ValidIffSignedAndBeforeExpiry ==
    [][(nreq' = nreq + 1 /\ resp'.op = "validateToken") =>
          (resp'.valid <=> (resp'.token.key = secret /\ now < resp'.token.exp))]_vars

\* What the claim calls a case-insensitive substring: needle occurs in hay.
Contains(hay, needle) ==
    \E i \in 0 .. (Len(hay) - Len(needle)) :
        \A k \in 1 .. Len(needle) : hay[i + k] = needle[k]

Satisfies(p, c) ==
    /\ c.name = None \/ Contains(Lower(Chars(p.name)), Lower(c.name[1]))
    /\ c.category = None \/ p.category = c.category[1]
    /\ c.minPrice = None \/ p.price >= c.minPrice[1]
    /\ c.maxPrice = None \/ p.price <= c.maxPrice[1]
    /\ c.inStock = None \/ ~c.inStock[1] \/ p.stockQuantity > 0

\* C13: a search answers 200 with exactly the stored products that satisfy
\* every criterion present (name as a case-insensitive substring).
SearchReturnsExactlyMatching ==
    (resp.op = "searchProducts" /\ resp.role # "ANONYMOUS") =>
        /\ resp.status = 200
        /\ resp.items = {id \in DOMAIN products : Satisfies(products[id], resp.criteria)}

\* A page that was served: the request passed security and nothing threw.
ServedPage(r) == r.op = "getAllProducts" /\ r.status = 200

Min(a, b) == IF a < b THEN a ELSE b

Max(a, b) == IF a > b THEN a ELSE b

\* What C14 says of a page of a catalog of n products, but for last.
PageCounts(r, n) ==
    LET p == r.pageable.page
        s == r.pageable.size
    IN  /\ Len(r.page.content) = Min(s, Max(0, n - p * s))
        /\ r.page.totalElements = n
        /\ r.page.totalPages = (n + s - 1) \div s
        /\ r.page.first = (p = 0)

\* C14 as stated: last exactly on the final page (index totalPages - 1).
PageLastOnlyOnFinalPage ==
    ServedPage(resp) =>
        /\ PageCounts(resp, Cardinality(DOMAIN products))
        /\ resp.page.last = (resp.pageable.page = resp.page.totalPages - 1)

\* C14: page p of size s of a catalog of N products has min(s, max(0, N - p*s))
\* items, totalElements N, totalPages ceil(N/s), first iff p = 0, and last iff
\* no page follows p (the final page, every index past it, an empty catalog).
PageShape ==
    ServedPage(resp) =>
        /\ PageCounts(resp, Cardinality(DOMAIN products))
        /\ resp.page.last = (resp.pageable.page + 1 >= resp.page.totalPages)

\* 25 products, size 10: page 2 holds 5 items and is the last of 3 pages.
PageShapeWitness ==
    /\ ServedPage(resp)
    /\ Cardinality(DOMAIN products) = 25
    /\ resp.pageable.page = 2 /\ resp.pageable.size = 10
    /\ Len(resp.page.content) = 5 /\ resp.page.totalPages = 3
    /\ resp.page.last /\ ~resp.page.first

\* C15: GET /products with a sortBy that is no product field, or with a size
\* below one, is answered 400 and never 500.
BadPageRequestIs400 ==
    (/\ resp.op = "getAllProducts"
     /\ resp.role # "ANONYMOUS"
     /\ resp.pageable.sortBy \notin ProductFields \/ resp.pageable.size < 1) =>
        resp.status = 400

\* C16: every product the API answers with carries the stored stock, and
\* inStock = (stockQuantity > 0) and lowStock = (stockQuantity < 10) computed
\* from it.
DerivedStockFlags ==
    resp.body # None =>
        LET b == resp.body[1]
        IN  /\ resp.id \in DOMAIN products
            /\ b.stockQuantity = products[resp.id].stockQuantity
            /\ b.inStock = (b.stockQuantity > 0)
            /\ b.lowStock = (b.stockQuantity < 10)

\* A product created with a small positive stock, read after its stock reached
\* 0: low on stock and not in stock.
DerivedStockFlagsWitness ==
    /\ resp.op = "updateStock" /\ resp.status = 200
    /\ resp.id > Len(SampleProducts)
    /\ resp.old = MaxDelta /\ resp.arg = -MaxDelta
    /\ resp.body # None
    /\ resp.body[1].stockQuantity = 0
    /\ resp.body[1].lowStock /\ ~resp.body[1].inStock

\* C17: updateProduct, deleteProduct and updateStock on an id that is not in
\* the store are answered with an error and write nothing.
AbsentIdWritesNothing ==
    [][(/\ nreq' # nreq
        /\ resp'.op \in {"updateProduct", "deleteProduct", "updateStock"}
        /\ ~resp'.existed) =>
           /\ resp'.status \in {400, 403, 404}
           /\ products' = products
           /\ nextProductId' = nextProductId]_vars

\* An ADMIN deleted an id the catalog does not hold and was answered 404.
AbsentIdWritesNothingWitness ==
    /\ resp.op = "deleteProduct" /\ resp.role = "ADMIN"
    /\ ~resp.existed /\ resp.id \notin DOMAIN products
    /\ resp.status = 404

\* C18: when save throws during POST /products or PUT /products/{id} on an
\* existing id, the client is answered 500.
StoreFailureIs500 ==
    (resp.op \in {"createProduct", "updateProduct"} /\ resp.saveThrew) =>
        resp.status = 500

\* C19: no stored product ever has a stock above 999999.
StockNeverAboveMax ==
    \A id \in DOMAIN products : products[id].stockQuantity <= MaxStockQuantity

\* An increase that would take the stock above 999999 was refused and the
\* stored stock is the one before the request.
StockNeverAboveMaxWitness ==
    /\ resp.op = "updateStock" /\ resp.role = "ADMIN" /\ resp.existed
    /\ resp.arg > 0 /\ resp.arg <= MaxStockQuantity
    /\ resp.old + resp.arg > MaxStockQuantity
    /\ resp.status = 400
    /\ resp.id \in DOMAIN products
    /\ products[resp.id].stockQuantity = resp.old

\* C20: when a response with status 401 is handled, the token is removed
\* from localStorage and the browser is sent to /login; a request sent after
\* that, before a token is stored again, carries no token.
LogoutOn401 ==
    [][/\ (client'.inflight # client.inflight /\ client'.inflight \subseteq client.inflight
            /\ client'.lastStatus = 401) =>
              /\ client'.token = NoToken
              /\ client'.location = "/login"
       /\ \A q \in client'.inflight \ client.inflight :
              client.loggedOut => q.authorization = NoToken]_vars

\* A request that carried a token was answered 401, and a request sent
\* afterwards is in flight without a token.
LogoutOn401Witness ==
    /\ client.lastStatus = 401 /\ client.rejected # NoToken
    /\ client.token = NoToken /\ client.location = "/login"
    /\ \E q \in client.inflight : q.afterLogout /\ q.authorization = NoToken

\* The sum of the deltas of the acknowledged stock updates of one product.
RECURSIVE AckedSum(_, _)
AckedSum(log, id) ==
    IF log = <<>> THEN 0
    ELSE (IF Head(log).id = id THEN Head(log).arg ELSE 0) + AckedSum(Tail(log), id)

\* C21: an updateStock that succeeds stores the stock it read plus its own
\* delta, whatever the store holds by then (last write wins), so overlapping
\* updates of one product can lose an update.
LastWriteWins ==
    [][(/\ Len(acked') = Len(acked) + 1
        /\ resp'.op = "updateStock") =>
           /\ resp'.status = 200
           /\ products'[resp'.id].stockQuantity = resp'.old + resp'.arg]_vars

\* Two overlapping stock updates of one product both answered 200, no
\* handler is running, and the stored stock is not the initial stock plus
\* the sum of their deltas.
LastWriteWinsWitness ==
    /\ Len(acked) = 2 /\ acked[1].id = acked[2].id
    /\ acked[1].id <= Len(SampleProducts)
    /\ \A t \in Threads : loaded[t].op = "idle"
    /\ products[acked[1].id].stockQuantity #
          SampleProducts[acked[1].id].stockQuantity + AckedSum(acked, acked[1].id)

\* C22: under any interleaving of register requests no two stored
\* identities share an email: a register request whose email was stored
\* after it passed the existsByEmail check creates no identity, returns no
\* token and fails.
UniqueEmails ==
    [][/\ \A i, j \in DOMAIN users' : users'[i].email = users'[j].email => i = j
       /\ \A t \in Threads :
             (/\ loaded[t].op = "register" /\ loaded'[t].op = "idle"
              /\ existsByEmail(loaded[t].entity.email)) =>
                /\ users' = users
                /\ resp'.status = registerFailed
                /\ resp'.token = NoToken]_vars

\* Two requests with the same fresh email both passed the check; one has
\* stored the identity and the other was answered with a failure.
UniqueEmailsWitness ==
    /\ resp.op = "register" /\ resp.status = registerFailed
    /\ ~resp.existed /\ existsByEmail(resp.email)
    /\ \E id \in DOMAIN users : id > Len(SeedUsers) /\ users[id].email = resp.email
    /\ \A t \in Threads : loaded[t].op = "idle"

\* C23: validateToken(token) and validateToken(token, userDetails) never
\* throw; they return false for a malformed token, for a token whose
\* signature does not verify and for a token whose expiry has passed, and
\* the two-argument form also returns false when the token's subject is not
\* the username of userDetails.
ValidateTokenNeverThrows ==
    [][(nreq' = nreq + 1 /\ resp'.op \in {"validateToken", "validateTokenOfUserDetails"}) =>
          /\ ~resp'.threw
          /\ resp'.valid \in BOOLEAN
          /\ resp'.token = Malformed => ~resp'.valid
          /\ resp'.token.key # secret => ~resp'.valid
          /\ now > resp'.token.exp => ~resp'.valid
          /\ (resp'.op = "validateTokenOfUserDetails" /\ resp'.token.sub # resp'.email) =>
                ~resp'.valid]_vars

\* The two-argument form was given a correctly signed token after its
\* expiry and returned false.
ValidateTokenNeverThrowsWitness ==
    /\ resp.op = "validateTokenOfUserDetails"
    /\ resp.token.key = secret /\ resp.token.sub = resp.email
    /\ now > resp.token.exp
    /\ ~resp.valid /\ ~resp.threw

\* C24: in every state reachable through updateUserRole and deleteUser at
\* least one identity has role ADMIN.
AlwaysAnAdmin == \E id \in DOMAIN users : users[id].role = "ADMIN"

\* C25: in every state of the auth reducer reachable by AUTH_START,
\* AUTH_SUCCESS, AUTH_FAILURE, AUTH_LOGOUT and CLEAR_ERROR, isAuthenticated
\* holds iff user is not null and implies that token is not null, and
\* AUTH_FAILURE and AUTH_LOGOUT leave user and token null and
\* isAuthenticated and isLoading false.
AuthStateConsistent ==
    LET s == authProvider.state
    IN  /\ s.isAuthenticated <=> s.user # NoUser
        /\ s.isAuthenticated => s.token # NoToken
        /\ authProvider.dispatched \in {"AUTH_FAILURE", "AUTH_LOGOUT"} =>
              /\ s.user = NoUser /\ s.token = NoToken
              /\ ~s.isAuthenticated /\ ~s.isLoading

\* AUTH_FAILURE was dispatched while a token was stored (a login had
\* succeeded or a stored token was mounted) and left the state without user
\* and token, with its message as the error.
AuthStateConsistentWitness ==
    /\ authProvider.dispatched = "AUTH_FAILURE"
    /\ authProvider.state.user = NoUser /\ authProvider.state.token = NoToken
    /\ ~authProvider.state.isAuthenticated /\ ~authProvider.state.isLoading
    /\ authProvider.state.error # None
    /\ client.token # NoToken

\* C26: whenever a login or register attempt ends in AUTH_FAILURE,
\* localStorage holds no token either.
NoStoredTokenAfterFailure ==
    authProvider.dispatched = "AUTH_FAILURE" => client.token = NoToken

\* C27: isLoading of the ProductContext is true whenever at least one of
\* its calls is awaiting its response, also when calls overlap, and false
\* once all of them have completed.
LoadingWhileAwaiting ==
    productProvider.state.isLoading <=> productProvider.awaiting # {}

\* C30: a deleteProduct(id) that succeeds leaves no product with that id in
\* products and selectedProduct null; one that fails leaves products and
\* selectedProduct as they were and sets error.
DeleteProductFrame ==
    [][\A call \in productProvider.awaiting \ productProvider'.awaiting :
          call.op = "deleteProduct" =>
             LET s == productProvider.state
                 n == productProvider'.state
             IN  IF productProvider'.settled.ok
                   THEN /\ ~Listed(n.products, call.id)
                        /\ n.selectedProduct = NoProduct
                   ELSE /\ n.products = s.products
                        /\ n.selectedProduct = s.selectedProduct
                        /\ n.error # None]_vars

\* A deleteProduct succeeded on a list that held the product, with a
\* product selected; the list still holds another product.
DeleteProductFrameWitness ==
    LET d == productProvider.settled
    IN  /\ d.call.op = "deleteProduct" /\ d.ok /\ d.listed /\ d.selected
        /\ ~Listed(productProvider.state.products, d.call.id)
        /\ productProvider.state.products # <<>>
        /\ productProvider.state.selectedProduct = NoProduct

\* C28: for every product and every 32-bit quantity > 0, an increaseStock
\* that returns normally leaves stockQuantity strictly greater than before,
\* and updateStock never returns a product with negative stock.
IncreaseStockNeverWraps ==
    /\ (resp.op = "increaseStock" /\ resp.arg > 0 /\ ~resp.threw) =>
          resp.body[1].stockQuantity > resp.old
    /\ (resp.op = "updateStock" /\ resp.status = 200) =>
          resp.body[1].stockQuantity >= 0

\* The store holds exactly the seed: one ADMIN admin@example.com, one USER
\* user@example.com and the ten sample products.
ExactlySeed(us, ps) ==
    /\ Cardinality(DOMAIN us) = Len(SeedUsers)
    /\ \A k \in DOMAIN SeedUsers : \E id \in DOMAIN us : us[id] = SeedUsers[k]
    /\ Cardinality(DOMAIN ps) = Len(SampleProducts)
    /\ \A k \in DOMAIN SampleProducts : \E id \in DOMAIN ps : ps[id] = SampleProducts[k]

\* C29: initializeData is idempotent: on a store that holds
\* admin@example.com, user@example.com and at least one product it writes
\* nothing, and on an empty store it yields exactly one ADMIN
\* admin@example.com, one USER user@example.com and the ten sample products,
\* so that any number of runs from an empty store yields exactly that.
SeedingIdempotent ==
    [][resp'.op = "initializeData" =>
          /\ Seeded =>
                /\ users' = users /\ products' = products
                /\ nextUserId' = nextUserId /\ nextProductId' = nextProductId
          /\ (DOMAIN users = {} /\ DOMAIN products = {}) =>
                ExactlySeed(users', products') /\ Seeded']_vars

\* initializeData ran on a store that already held the seed and nothing
\* else, and the store still holds exactly the seed.
SeedingIdempotentWitness ==
    /\ resp.op = "initializeData" /\ resp.existed
    /\ ExactlySeed(users, products)
    /\ nextUserId = Len(SeedUsers) + 1 /\ nextProductId = Len(SampleProducts) + 1
====
